---------------------------- MODULE Spec2Model ----------------------------
(***************************************************************************)
(* Verification model of absfs/sftpfs: the client connection driver (New), *)
(* the client adapter (OpenFile), the server runtime (handleConnection,    *)
(* handleChannel) and the server handlers (ServerHandler, serverFile).     *)
(*                                                                         *)
(* Each subsystem has its own group of variables and its own               *)
(* specification; a specification leaves the other groups idle.            *)
(***************************************************************************)
EXTENDS Integers, Sequences, FiniteSets, TLC

(***************************************************************************)
(* Bounds of the model.                                                    *)
(***************************************************************************)
\* largest Config.MaxRetries a caller supplies
MaxRetriesBound == 2
\* transport file handles a client opens in one run
MaxHandles == 2
\* longest file content and longest byte string written
MaxLen == 2
\* bytes one read or write packet carries
PacketLen == 1
\* connections the listener accepts
MaxConns == 1
\* request workers that call the handler object at the same time
MaxTasks == 2
\* entries the buffer of a ListAt holds at most
MaxBuf == 2
\* the largest n of a Readdir
MaxCount == 2
\* transport ReadDir calls for one directory handle
MaxFetches == 2
\* Close calls on one File
MaxCloses == 2
\* requests a channel's queue holds before the read loop waits (the library's
\* queue holds 16)
ChanBuffer == 1

Nil == "nil"

\* an error value is a record; this one is the nil error
NilError == [op |-> Nil, path |-> Nil, cause |-> Nil]

(***************************************************************************)
(* time.Duration is a 64-bit two's complement integer.  A duration is      *)
(* modelled by the set of the positions of its 1 bits, which is exact for  *)
(* the shift and for the multiplication by a power of two that New does.   *)
(***************************************************************************)
Width == 64

\* time.Second = 10^9 ns = 2^9+2^11+2^14+2^15+2^17+2^19+2^20+2^23+2^24+2^25+2^27+2^28+2^29
Second == {9, 11, 14, 15, 17, 19, 20, 23, 24, 25, 27, 28, 29}

\* the zero duration
Zero == {}

\* a duration is negative when its sign bit is set
IsNegative(d) == (Width - 1) \in d

\* time.Duration(1 << uint(attempt)): a shift by the width or more gives 0
ShiftOne(k) == IF k < Width THEN {k} ELSE {}

\* d * m in 64-bit arithmetic, for m = 0 or a single bit: the bits of d moved
\* up by the position of m's bit, those moved past the width are lost
Mul64(d, m) == {b + k : b \in d, k \in m} \cap (0 .. (Width - 1))

\* d * 2^k over the mathematical integers (no width), for d >= 0
MulExact(d, k) == {b + k : b \in d}

VARIABLES
  configMaxRetries,  \* Config.MaxRetries
  configRetryDelay,  \* Config.RetryDelay
  configKey,         \* Config.Key: "none", "valid" or "invalid"
  maxRetries,        \* New's local maxRetries
  retryDelay,        \* New's local retryDelay
  attempt,           \* New's loop variable
  lastErr,           \* New's lastErr
  sshClient,         \* New's sshClient: Nil or the connection dialled
  client,            \* New's client: Nil or the SFTP client created
  sshOpen,           \* the SSH connections dialled and not closed
  newPc,             \* New's position
  newLog,            \* what New did: dials, client creations, closes, sleeps
  newResult          \* what New returned

newVars == <<configMaxRetries, configRetryDelay, configKey, maxRetries,
             retryDelay, attempt, lastErr, sshClient, client, sshOpen,
             newPc, newLog, newResult>>

(***************************************************************************)
(* The client adapter: a FileSystem over the transport (sftpClientInterface)*)
(***************************************************************************)
VARIABLES
  remote,      \* the remote files as the transport shows them: path -> file
  tOpen,       \* the transport file handles opened and not closed
  tNext,       \* the next transport handle
  opLog,       \* the transport calls of the last client operation
  opRes,       \* the last client operation and what it returned
  remoteBefore \* the remote files when the last client operation was called

clientVars == <<remote, tOpen, tNext, opLog, opRes, remoteBefore>>

(***************************************************************************)
(* The server handlers over the backing filesystem, one session's requests *)
(* in the order the request library hands them over.                       *)
(***************************************************************************)
VARIABLES
  files,       \* the backing filesystem: path -> [exists, data]
  sf,          \* the serverFile the last Fileread or Filewrite returned
  openFlags,   \* the flags the last Filewrite passed to fs.OpenFile
  reqPflags,   \* the protocol bits of the session's open-for-write request
  reqData,     \* the bytes the session writes
  sent,        \* how many of them it has written
  readBack,    \* the bytes it has read back
  statSize,    \* the size a Stat request reported
  dataPc       \* the session's position

dataVars == <<files, sf, openFlags, reqPflags, reqData, sent, readBack,
              statSize, dataPc>>

(***************************************************************************)
(* The server runtime: Serve, handleConnection, handleChannel, serveSFTP.  *)
(***************************************************************************)
VARIABLES
  servePc,     \* Serve: "accepting", "returned", or "dead" after a panic
  conn,        \* each connection's state
  handshake,   \* each connection's ssh.NewServerConn outcome
  chanSt,      \* each channel's state, "NONE" before the client opens it
  hist,        \* the states each session went through
  served,      \* whether an SFTP request of the session reached a handler
  lastReply,   \* the last req.Reply: "none", "ok" or "fail"
  crashed,     \* a task panicked, which ends the server process
  serveResult  \* the error the last Accept returned, and what Serve returned

srvVars == <<servePc, conn, handshake, chanSt, hist, served, lastReply, crashed,
             serveResult>>

(***************************************************************************)
(* The handler object's lock: ServerHandler.mu and the calls that take it. *)
(***************************************************************************)
VARIABLES
  hPc,         \* each task's position in its handler call
  hReq,        \* each task's request: the handler called and r.Method
  hRes,        \* each task's last result
  rwReaders,   \* the tasks that hold h.mu shared
  rwWriter     \* the tasks that hold h.mu exclusively

lockVars == <<hPc, hReq, hRes, rwReaders, rwWriter>>

(***************************************************************************)
(* One serverFile shared by concurrent ReadAt and WriteAt calls.           *)
(***************************************************************************)
VARIABLES
  fHandle,     \* the backing file handle f.file: its flags and position
  fData,       \* the bytes of the backing file
  fMu,         \* the tasks that hold f.mu
  fPc,         \* each task's position in its ReadAt or WriteAt
  fCall,       \* each task's call: kind and offset
  fRes         \* each task's result, and where its bytes were transferred

fileVars == <<fHandle, fData, fMu, fPc, fCall, fRes>>

(***************************************************************************)
(* Setstat requests handled by Filecmd over one backing file.              *)
(***************************************************************************)
VARIABLES
  ssReq,   \* the request's attributes: the groups it carries and their values
  ssFile,  \* the backing file: mode, times, owner and bytes
  ssOld,   \* the backing file's bytes before the request
  ssCalls, \* the backing-filesystem calls made, in order
  ssPc,    \* the handler's position
  ssErr    \* the error the handler returns

setVars == <<ssReq, ssFile, ssOld, ssCalls, ssPc, ssErr>>

(***************************************************************************)
(* Filelist, method List: handleList and the listerat it returns.          *)
(***************************************************************************)
VARIABLES
  dir,      \* the names in the backing directory now
  lister,   \* the listerat of the last List request: its captured entries
  snapshot, \* the names the directory held when that List request ran
  la        \* the last ListAt call: its arguments and its result

listVars == <<dir, lister, snapshot, la>>

(***************************************************************************)
(* A client directory handle: File.Readdir and File.Readdirnames.          *)
(***************************************************************************)
VARIABLES
  rdRemote,   \* the remote directory's listing now, in the transport's order
  rdH,        \* the handle: f.dirEntries (nil or a slice) and f.readdirPos
  rdFetches,  \* the transport ReadDir calls that succeeded for the handle
  rdFirst,    \* the first listing the handle captured
  rdReturned, \* the names all calls on the handle returned so far, in order
  rdLast      \* the last call: its arguments, its result, the cursor before it

rdVars == <<rdRemote, rdH, rdFetches, rdFirst, rdReturned, rdLast>>

(***************************************************************************)
(* FileSystem.RemoveAll and removeAllDir over a remote tree.               *)
(***************************************************************************)
VARIABLES
  raTree,   \* the remote tree now: what each path holds
  raTree0,  \* the remote tree when RemoveAll was called
  raTarget, \* the path RemoveAll was called with
  raStack,  \* the removeAllDir calls in progress, innermost last
  raLog,    \* the transport calls made, in order
  raPc,     \* RemoveAll's position
  raResult  \* the error RemoveAll returned

raVars == <<raTree, raTree0, raTarget, raStack, raLog, raPc, raResult>>

(***************************************************************************)
(* The FileSystem methods that take paths, and the working directory.      *)
(***************************************************************************)
VARIABLES
  fsRemote,  \* what each remote path holds
  fsCwd,     \* fs.cwd
  fsPrevCwd, \* fs.cwd when the last operation was called
  fsLog,     \* the transport calls of the last operation, in order
  fsOp       \* the last operation, its arguments and what it returned

fsVars == <<fsRemote, fsCwd, fsPrevCwd, fsLog, fsOp>>

(***************************************************************************)
(* The client File handles: each forwards to its transport file.           *)
(***************************************************************************)
VARIABLES
  fhT,    \* the transport file of each File: closed or not, Close calls, position
  fhRes,  \* what the Close calls of each File returned, in order
  fhLast  \* the last File method called and the error it returned

fhVars == <<fhT, fhRes, fhLast>>

(***************************************************************************)
(* Two open requests on one path: two serverFiles over one backing file.   *)
(***************************************************************************)
VARIABLES
  thData, \* the bytes of the backing file at the path
  thH,    \* the backing file handle of each serverFile: flags and position
  thPrev, \* the bytes and the positions before the last call
  thLast  \* the last call, its arguments and results

thVars == <<thData, thH, thPrev, thLast>>

(***************************************************************************)
(* Symlink and Readlink requests of the server over the backing filesystem. *)
(***************************************************************************)
VARIABLES
  lnSupported, \* whether the backing filesystem is an absfs.SymlinkFileSystem
  lnLinks,     \* the links the backing filesystem holds: link path -> target
  lnReq,       \* the last request: method, Filepath, Target
  lnReply      \* what the handler returned for it

lnVars == <<lnSupported, lnLinks, lnReq, lnReply>>

(***************************************************************************)
(* The password callbacks SimplePasswordAuth and MultiUserPasswordAuth.    *)
(***************************************************************************)
VARIABLES
  auCfg, \* how the callback was made: for one user, or over a map of users
  auTry, \* the login of the last call: conn.User() and pass
  auOut  \* what the last call returned

auVars == <<auCfg, auTry, auOut>>

(***************************************************************************)
(* One connection: handleConnection, its handleChannel tasks and serveSFTP. *)
(***************************************************************************)
VARIABLES
  cnPc,     \* handleConnection: "handshake", "serving" or "returned"
  cnSock,   \* the raw socket
  cnSsh,    \* the SSH connection
  cnClient, \* the client: "connected" or "gone"
  cnCh,     \* each channel's handleChannel task
  cnQueue,  \* the requests of each channel that no task has received yet
  cnEnded,  \* the channels whose request and data streams have ended
  cnMux,    \* the request the connection's read loop waits to hand over, if any
  cnLast,   \* the last request a task received, and the reply
  cnPanic   \* a task has panicked

cnVars == <<cnPc, cnSock, cnSsh, cnClient, cnCh, cnQueue, cnEnded, cnMux, cnLast, cnPanic>>

(***************************************************************************)
(* Handler calls and the data transfers on the files they returned, one path. *)
(***************************************************************************)
VARIABLES
  txPc,   \* each request worker: "idle" or "locked" (inside a handler call)
  txReq,  \* the handler method each worker is in
  txHeld, \* who holds h.mu
  txFile, \* each serverFile: "closed", "reader" (from Fileread) or "writer"
  txXfer  \* the ReadAt or WriteAt in progress on each serverFile, or "done"

txVars == <<txPc, txReq, txHeld, txFile, txXfer>>

vars == <<newVars, clientVars, dataVars, srvVars, lockVars, fileVars,
          setVars, listVars, rdVars, raVars, fsVars, fhVars, thVars, lnVars,
          auVars, cnVars, txVars>>

\* what an action of one group leaves alone: the other groups
NewFrame == UNCHANGED <<clientVars, dataVars, srvVars, lockVars, fileVars,
                        setVars, listVars, rdVars, raVars, fsVars, fhVars,
                        thVars, lnVars, auVars, cnVars, txVars>>
ClientFrame == UNCHANGED <<newVars, dataVars, srvVars, lockVars, fileVars,
                           setVars, listVars, rdVars, raVars, fsVars, fhVars,
                           thVars, lnVars, auVars, cnVars, txVars>>
DataFrame == UNCHANGED <<newVars, clientVars, srvVars, lockVars, fileVars,
                         setVars, listVars, rdVars, raVars, fsVars, fhVars,
                         thVars, lnVars, auVars, cnVars, txVars>>
SrvFrame == UNCHANGED <<newVars, clientVars, dataVars, lockVars, fileVars,
                        setVars, listVars, rdVars, raVars, fsVars, fhVars,
                        thVars, lnVars, auVars, cnVars, txVars>>
LockFrame == UNCHANGED <<newVars, clientVars, dataVars, srvVars, fileVars,
                         setVars, listVars, rdVars, raVars, fsVars, fhVars,
                         thVars, lnVars, auVars, cnVars, txVars>>
FileFrame == UNCHANGED <<newVars, clientVars, dataVars, srvVars, lockVars,
                         setVars, listVars, rdVars, raVars, fsVars, fhVars,
                         thVars, lnVars, auVars, cnVars, txVars>>
SetFrame == UNCHANGED <<newVars, clientVars, dataVars, srvVars, lockVars,
                        fileVars, listVars, rdVars, raVars, fsVars, fhVars,
                        thVars, lnVars, auVars, cnVars, txVars>>
ListFrame == UNCHANGED <<newVars, clientVars, dataVars, srvVars, lockVars,
                         fileVars, setVars, rdVars, raVars, fsVars, fhVars,
                         thVars, lnVars, auVars, cnVars, txVars>>
RdFrame == UNCHANGED <<newVars, clientVars, dataVars, srvVars, lockVars,
                       fileVars, setVars, listVars, raVars, fsVars, fhVars,
                       thVars, lnVars, auVars, cnVars, txVars>>
RaFrameOthers == UNCHANGED <<newVars, clientVars, dataVars, srvVars,
                             lockVars, fileVars, setVars, listVars, rdVars,
                             fsVars, fhVars, thVars, lnVars, auVars, cnVars, txVars>>
FsFrame == UNCHANGED <<newVars, clientVars, dataVars, srvVars, lockVars,
                       fileVars, setVars, listVars, rdVars, raVars, fhVars,
                       thVars, lnVars, auVars, cnVars, txVars>>
FhFrame == UNCHANGED <<newVars, clientVars, dataVars, srvVars, lockVars,
                       fileVars, setVars, listVars, rdVars, raVars, fsVars,
                       thVars, lnVars, auVars, cnVars, txVars>>
ThFrame == UNCHANGED <<newVars, clientVars, dataVars, srvVars, lockVars,
                       fileVars, setVars, listVars, rdVars, raVars, fsVars,
                       fhVars, lnVars, auVars, cnVars, txVars>>
LnFrame == UNCHANGED <<newVars, clientVars, dataVars, srvVars, lockVars,
                       fileVars, setVars, listVars, rdVars, raVars, fsVars,
                       fhVars, thVars, auVars, cnVars, txVars>>
AuFrame == UNCHANGED <<newVars, clientVars, dataVars, srvVars, lockVars,
                       fileVars, setVars, listVars, rdVars, raVars, fsVars,
                       fhVars, thVars, lnVars, cnVars, txVars>>
CnFrame == UNCHANGED <<newVars, clientVars, dataVars, srvVars, lockVars,
                       fileVars, setVars, listVars, rdVars, raVars, fsVars,
                       fhVars, thVars, lnVars, auVars, txVars>>
TxFrame == UNCHANGED <<newVars, clientVars, dataVars, srvVars, lockVars,
                       fileVars, setVars, listVars, rdVars, raVars, fsVars,
                       fhVars, thVars, lnVars, auVars, cnVars>>

\* a group no operation of which runs
NewIdle ==
  /\ configMaxRetries = 0 /\ configRetryDelay = Zero /\ configKey = "none"
  /\ maxRetries = 0 /\ retryDelay = Zero /\ attempt = 0
  /\ lastErr = Nil /\ sshClient = Nil /\ client = Nil
  /\ sshOpen = {} /\ newPc = "idle" /\ newLog = <<>> /\ newResult = Nil

ClientIdle ==
  /\ remote = <<>> /\ tOpen = {} /\ tNext = 0 /\ opLog = <<>> /\ opRes = Nil
  /\ remoteBefore = <<>>
DataIdle ==
  /\ files = <<>> /\ sf = Nil /\ openFlags = {} /\ reqPflags = {}
  /\ reqData = <<>> /\ sent = 0 /\ readBack = <<>> /\ statSize = 0
  /\ dataPc = "idle"
SrvIdle ==
  /\ servePc = "idle" /\ conn = <<>> /\ handshake = <<>> /\ chanSt = <<>>
  /\ hist = <<>> /\ served = <<>> /\ lastReply = "none" /\ crashed = FALSE
  /\ serveResult = <<>>
LockIdle ==
  /\ hPc = <<>> /\ hReq = <<>> /\ hRes = <<>>
  /\ rwReaders = {} /\ rwWriter = {}
FileIdle ==
  /\ fHandle = <<>> /\ fData = <<>> /\ fMu = {}
  /\ fPc = <<>> /\ fCall = <<>> /\ fRes = <<>>
SetIdle ==
  /\ ssReq = <<>> /\ ssFile = <<>> /\ ssOld = <<>> /\ ssCalls = <<>>
  /\ ssPc = "idle" /\ ssErr = Nil
ListIdle ==
  /\ dir = {} /\ lister = <<>> /\ snapshot = {} /\ la = <<>>
RdIdle ==
  /\ rdRemote = <<>> /\ rdH = <<>> /\ rdFetches = 0 /\ rdFirst = <<>>
  /\ rdReturned = <<>> /\ rdLast = <<>>
RaIdle ==
  /\ raTree = <<>> /\ raTree0 = <<>> /\ raTarget = <<>> /\ raStack = <<>>
  /\ raLog = <<>> /\ raPc = "idle" /\ raResult = NilError
FsIdle ==
  /\ fsRemote = <<>> /\ fsCwd = "/" /\ fsPrevCwd = "/" /\ fsLog = <<>>
  /\ fsOp = <<>>
FhIdle ==
  /\ fhT = <<>> /\ fhRes = <<>> /\ fhLast = <<>>
ThIdle ==
  /\ thData = <<>> /\ thH = <<>> /\ thPrev = <<>> /\ thLast = <<>>
LnIdle ==
  /\ lnSupported = FALSE /\ lnLinks = <<>> /\ lnReq = <<>>
  /\ lnReply = <<>>
AuIdle ==
  /\ auCfg = <<>> /\ auTry = <<>> /\ auOut = <<>>
CnIdle ==
  /\ cnPc = "idle" /\ cnSock = "idle" /\ cnSsh = "idle"
  /\ cnClient = "idle" /\ cnCh = <<>> /\ cnQueue = <<>> /\ cnEnded = {}
  /\ cnMux = <<>> /\ cnLast = <<>> /\ cnPanic = FALSE
TxIdle ==
  /\ txPc = <<>> /\ txReq = <<>> /\ txHeld = {} /\ txFile = <<>>
  /\ txXfer = <<>>

\* the errors a dial or a client creation fails with
Errs == {"e1", "e2"}

\* the inputs of New
MaxRetriesInputs == (-1) .. MaxRetriesBound
RetryDelayInputs == {Zero, {0}, Second, {Width - 2}}
KeyInputs == {"none", "invalid"}

Ev(e, k, d, err) == [ev |-> e, k |-> k, d |-> d, err |-> err]

NewStartState ==
  /\ configMaxRetries \in MaxRetriesInputs
  /\ configRetryDelay \in RetryDelayInputs
  /\ configKey \in KeyInputs
  /\ maxRetries = 0 /\ retryDelay = Zero /\ attempt = 0
  /\ lastErr = Nil /\ sshClient = Nil /\ client = Nil
  /\ sshOpen = {} /\ newPc = "entry" /\ newLog = <<>> /\ newResult = Nil

NewInit ==
  NewStartState /\ ClientIdle /\ DataIdle /\ SrvIdle /\ LockIdle /\ FileIdle
  /\ RdIdle /\ SetIdle /\ ListIdle /\ RaIdle /\ FsIdle /\ FhIdle /\ ThIdle
  /\ LnIdle /\ AuIdle /\ CnIdle /\ TxIdle

\* Default to 3 retries
DefaultMaxRetriesMutant(m) == m
DefaultMaxRetries(m) == IF m = 0 THEN 3 ELSE m

\* Default to 1 second initial delay
DefaultRetryDelay(d) == IF d = Zero THEN Second ELSE d

\* the loop condition of New
LoopGuard(a, m) == a <= m

\* "If this was the last attempt, don't sleep"
SleepGuardMutant(a, m) == a <= m
SleepGuard(a, m) == a < m

\* Exponential backoff: delay * 2^attempt
SleepDurationMutant(d, a) == d
SleepDuration(d, a) == Mul64(d, ShiftOne(a))

\* "SFTP client creation failed, close SSH client and retry"
CloseSshOnSftpFailureMutant(open, c) == open
CloseSshOnSftpFailure(open, c) == open \ {c}

\* wrapErrorf("failed to connect after %d attempts: %w", maxRetries+1, lastErr)
ConnectError(m, e) == [op |-> "connect", attempts |-> m + 1, cause |-> e]

\* wrapErrorf("failed to parse private key: %w", err)
KeyError == [op |-> "key", attempts |-> 0, cause |-> "parse"]

\* the defaults and the authentication method
NewStart ==
  /\ newPc = "entry"
  /\ maxRetries' = DefaultMaxRetries(configMaxRetries)
  /\ retryDelay' = DefaultRetryDelay(configRetryDelay)
  /\ IF configKey = "invalid"
       THEN /\ newResult' = [ok |-> FALSE, err |-> KeyError,
                             client |-> Nil, sshClient |-> Nil]
            /\ newPc' = "done"
       ELSE /\ newResult' = newResult
            /\ newPc' = "loop"
  /\ UNCHANGED <<configMaxRetries, configRetryDelay, configKey, attempt,
                 lastErr, sshClient, client, sshOpen, newLog>>
  /\ NewFrame

\* sshClient, lastErr = ssh.Dial("tcp", config.Host, sshConfig)
NewDial ==
  /\ newPc = "loop"
  /\ LoopGuard(attempt, maxRetries)
  /\ \/ /\ sshClient' = attempt
        /\ lastErr' = Nil
        /\ sshOpen' = sshOpen \cup {attempt}
        /\ newLog' = Append(newLog, Ev("dial", attempt, Zero, Nil))
        /\ newPc' = "sftp"
     \/ \E e \in Errs :
          /\ sshClient' = Nil
          /\ lastErr' = e
          /\ sshOpen' = sshOpen
          /\ newLog' = Append(newLog, Ev("dial", attempt, Zero, e))
          /\ newPc' = "backoff"
  /\ UNCHANGED <<configMaxRetries, configRetryDelay, configKey, maxRetries,
                 retryDelay, attempt, client, newResult>>
  /\ NewFrame

\* client, lastErr = sftp.NewClient(sshClient); break on success, close on failure
NewSFTPClient ==
  /\ newPc = "sftp"
  /\ \/ /\ client' = attempt
        /\ lastErr' = Nil
        /\ sshOpen' = sshOpen
        /\ newLog' = Append(newLog, Ev("sftp", attempt, Zero, Nil))
        /\ newPc' = "after"
     \/ \E e \in Errs :
          /\ client' = Nil
          /\ lastErr' = e
          /\ sshOpen' = CloseSshOnSftpFailure(sshOpen, sshClient)
          /\ newLog' = Append(newLog, Ev("sftp", attempt, Zero, e))
          /\ newPc' = "backoff"
  /\ UNCHANGED <<configMaxRetries, configRetryDelay, configKey, maxRetries,
                 retryDelay, attempt, sshClient, newResult>>
  /\ NewFrame

\* the sleep between attempts, and attempt++
NewBackoff ==
  /\ newPc = "backoff"
  /\ newLog' = IF SleepGuard(attempt, maxRetries)
                 THEN Append(newLog, Ev("sleep", attempt,
                                        SleepDuration(retryDelay, attempt), Nil))
                 ELSE newLog
  /\ attempt' = attempt + 1
  /\ newPc' = "loop"
  /\ UNCHANGED <<configMaxRetries, configRetryDelay, configKey, maxRetries,
                 retryDelay, lastErr, sshClient, client, sshOpen, newResult>>
  /\ NewFrame

\* the loop ends because attempt > maxRetries
NewLoopExit ==
  /\ newPc = "loop"
  /\ ~LoopGuard(attempt, maxRetries)
  /\ newPc' = "after"
  /\ UNCHANGED <<configMaxRetries, configRetryDelay, configKey, maxRetries,
                 retryDelay, attempt, lastErr, sshClient, client, sshOpen,
                 newLog, newResult>>
  /\ NewFrame

\* if lastErr != nil return the wrapped error, else the FileSystem
NewReturn ==
  /\ newPc = "after"
  /\ newResult' = IF lastErr # Nil
                    THEN [ok |-> FALSE, err |-> ConnectError(maxRetries, lastErr),
                          client |-> Nil, sshClient |-> Nil]
                    ELSE [ok |-> TRUE, err |-> NilError,
                          client |-> client, sshClient |-> sshClient]
  /\ newPc' = "done"
  /\ UNCHANGED <<configMaxRetries, configRetryDelay, configKey, maxRetries,
                 retryDelay, attempt, lastErr, sshClient, client, sshOpen,
                 newLog>>
  /\ NewFrame

NewNext ==
  \/ NewStart
  \/ NewDial
  \/ NewSFTPClient
  \/ NewBackoff
  \/ NewLoopExit
  \/ NewReturn

SpecNew == NewInit /\ [][NewNext]_vars

(***************************************************************************)
(* The client adapter.                                                     *)
(***************************************************************************)


(***************************************************************************)
(* Claims about New.                                                       *)
(***************************************************************************)
NumDials == Cardinality({i \in DOMAIN newLog : newLog[i].ev = "dial"})

\* event i is an attempt that succeeded: the dial and the client creation
Succeeded(i) == newLog[i].ev = "sftp" /\ newLog[i].err = Nil

\* event i is the failure of an attempt: of its dial or of its client creation
Failed(i) == newLog[i].ev \in {"dial", "sftp"} /\ newLog[i].err # Nil

LastFailure == CHOOSE i \in DOMAIN newLog :
                 Failed(i) /\ \A j \in DOMAIN newLog : j > i => ~Failed(j)

\* the 64-bit duration d is the non-negative integer whose bits are m
Represents(d, m) == d = m /\ ~IsNegative(d)

\* C5: New makes at most MaxRetries+1 attempts, stops at the first attempt
\* whose dial and client creation both succeed, and when every attempt fails
\* returns an error wrapping the error of the last attempt.
C5_AttemptsBounded ==
  /\ NumDials <= configMaxRetries + 1
  /\ \A i \in DOMAIN newLog : Succeeded(i) => i = Len(newLog)
  /\ (newPc = "done" /\ configKey # "invalid") =>
       IF \E i \in DOMAIN newLog : Succeeded(i)
         THEN newResult.ok
         ELSE NumDials > 0 =>
                /\ ~newResult.ok
                /\ newResult.err.cause = newLog[LastFailure].err

\* C6: after a failed attempt k that is not the last one New sleeps
\* RetryDelay * 2^k before attempt k+1, and it sleeps at no other time:
\* not after the last attempt, not after a successful attempt.
C6_BackoffSchedule ==
  \A i \in DOMAIN newLog :
    /\ newLog[i].ev = "sleep" =>
         /\ Represents(newLog[i].d, MulExact(retryDelay, newLog[i].k))
         /\ i > 1
         /\ Failed(i - 1)
         /\ newLog[i - 1].k = newLog[i].k
         /\ newLog[i].k < maxRetries
    /\ (Failed(i) /\ newLog[i].k < maxRetries) =>
         IF i = Len(newLog)
           THEN newPc = "backoff"
           ELSE newLog[i + 1].ev = "sleep" /\ newLog[i + 1].k = newLog[i].k

\* C35: whenever New returns without error, the returned filesystem holds an
\* established SSH connection and SFTP client: New never reports success
\* without a connection attempt having succeeded, for every value of
\* MaxRetries, negative values included.
C35_SuccessMeansConnected ==
  (newPc = "done" /\ newResult.ok) =>
     \E i \in DOMAIN newLog :
       /\ Succeeded(i)
       /\ newResult.client = newLog[i].k
       /\ newResult.sshClient = newLog[i].k
       /\ newResult.sshClient \in sshOpen

\* C40: for every attempt index k < MaxRetries, the backoff delay New computes
\* as RetryDelay * (1 << k) in 64-bit arithmetic is positive and exactly twice
\* the delay of attempt k-1: neither the shift nor the multiplication
\* overflows for any configured MaxRetries and RetryDelay.
C40_BackoffNoOverflow ==
  \A i \in DOMAIN newLog :
    newLog[i].ev = "sleep" =>
      /\ newLog[i].d # Zero
      /\ ~IsNegative(newLog[i].d)
      /\ newLog[i].d = MulExact(retryDelay, newLog[i].k)
      /\ newLog[i].k > 0 =>
           newLog[i].d = MulExact(SleepDuration(retryDelay, newLog[i].k - 1), 1)

\* C7: with Config.MaxRetries = 0 New makes exactly one attempt.
C7_ZeroMeansNoRetry ==
  (configMaxRetries = 0 /\ configKey # "invalid") =>
     /\ NumDials <= 1
     /\ newPc = "done" => NumDials = 1

\* C8: an SSH connection whose SFTP client creation failed is closed before
\* the next attempt starts or New returns; New returning an error leaves no
\* SSH connection open; New never holds two open SSH connections.
C8_NoSshLeak ==
  /\ Cardinality(sshOpen) <= 1
  /\ newPc \in {"loop", "backoff"} => sshOpen = {}
  /\ (newPc = "after" /\ lastErr # Nil) => sshOpen = {}
  /\ newPc = "done" =>
       IF newResult.ok THEN sshOpen \subseteq {newResult.sshClient}
                       ELSE sshOpen = {}

\* New returned an error after an attempt whose dial succeeded and whose
\* client creation failed, and after a later attempt
C8_Witness ==
  /\ newPc = "done"
  /\ ~newResult.ok
  /\ \E i \in DOMAIN newLog :
       /\ newLog[i].ev = "sftp" /\ newLog[i].err # Nil
       /\ \E j \in DOMAIN newLog : j > i /\ newLog[j].ev = "dial"


\* the paths, open flags and permissions a caller supplies
Paths == {"/a", "/b"}
OpenFlagInputs == {{"O_RDONLY"}, {"O_WRONLY", "O_CREATE"},
                   {"O_RDWR", "O_CREATE", "O_TRUNC"}}
PermInputs == {"0600", "0666"}

\* the mode a file has when the transport created it, before any chmod
CreatedMode == "0644"

\* no transport handle: a nil file
NoHandle == -1

NoFile == [exists |-> FALSE, mode |-> Nil]

\* one transport call of a client operation
Call(c, name, arg, err, h) ==
  [call |-> c, name |-> name, arg |-> arg, err |-> err, h |-> h]

\* a wrapError that formats the cause into the text (%v) and so loses it
WrapErrorMutant(op, path, err) ==
  IF err = Nil THEN NilError ELSE [op |-> op, path |-> path, cause |-> "text"]

\* wrapError: nil stays nil, an error is wrapped (%w) with the operation and path
WrapError(op, path, err) ==
  IF err = Nil THEN NilError ELSE [op |-> op, path |-> path, cause |-> err]

\* what a client operation returned: a File over a transport handle, or an error
OpResult(op, name, flag, perm, h, err) ==
  [op |-> op, name |-> name, flag |-> flag, perm |-> perm, file |-> h, err |-> err]

ClientStartState ==
  /\ remote \in [Paths -> {NoFile, [exists |-> TRUE, mode |-> CreatedMode]}]
  /\ tOpen = {} /\ tNext = 0 /\ opLog = <<>>
  /\ opRes = OpResult(Nil, Nil, {}, Nil, NoHandle, NilError)
  /\ remoteBefore = remote

\* the transport's OpenFile can succeed: the file exists or is to be created
CanOpen(name, flag) == remote[name].exists \/ "O_CREATE" \in flag

\* the remote files after the transport opened name with flag
RemoteAfterOpen(name, flag) ==
  IF remote[name].exists THEN remote
  ELSE [remote EXCEPT ![name] = [exists |-> TRUE, mode |-> CreatedMode]]

\* OpenFile's condition for the chmod: "If creating a new file, set the permissions"
ChmodGuardMutant(flag) == TRUE
ChmodGuard(flag) == "O_CREATE" \in flag

\* file.Close() after the chmod failed
CloseOnChmodFailureMutant(open, h) == open
CloseOnChmodFailure(open, h) == open \ {h}

\* what OpenFile returns after the chmod failed
ResultOnChmodFailureMutant(name, flag, perm, h, e) ==
  OpResult("OpenFile", name, flag, perm, h, NilError)
ResultOnChmodFailure(name, flag, perm, h, e) ==
  OpResult("OpenFile", name, flag, perm, NoHandle, WrapError("OpenFile.Chmod", name, e))

\* FileSystem.OpenFile(name, flag, perm)
OpenFile(name, flag, perm) ==
  /\ tNext < MaxHandles
  /\ remoteBefore' = remote
  /\ \/ \* fs.client.OpenFile fails
        \E e \in Errs \cup {"notfound"} :
          /\ (e = "notfound") = ~CanOpen(name, flag)
          /\ opLog' = <<Call("OpenFile", name, flag, e, NoHandle)>>
          /\ opRes' = OpResult("OpenFile", name, flag, perm, NoHandle,
                               WrapError("OpenFile", name, e))
          /\ UNCHANGED <<remote, tOpen, tNext>>
     \/ \* fs.client.OpenFile succeeds and no chmod is issued
        /\ CanOpen(name, flag)
        /\ ~ChmodGuard(flag)
        /\ remote' = RemoteAfterOpen(name, flag)
        /\ tOpen' = tOpen \cup {tNext}
        /\ tNext' = tNext + 1
        /\ opLog' = <<Call("OpenFile", name, flag, Nil, tNext)>>
        /\ opRes' = OpResult("OpenFile", name, flag, perm, tNext, NilError)
     \/ \* fs.client.OpenFile succeeds, fs.client.Chmod fails: close, return the error
        \E e \in Errs :
          /\ CanOpen(name, flag)
          /\ ChmodGuard(flag)
          /\ remote' = RemoteAfterOpen(name, flag)
          /\ tOpen' = CloseOnChmodFailure(tOpen \cup {tNext}, tNext)
          /\ tNext' = tNext + 1
          /\ opLog' = <<Call("OpenFile", name, flag, Nil, tNext),
                        Call("Chmod", name, perm, e, NoHandle),
                        Call("Close", name, Nil, Nil, tNext)>>
          /\ opRes' = ResultOnChmodFailure(name, flag, perm, tNext, e)
     \/ \* fs.client.OpenFile and fs.client.Chmod succeed
        /\ CanOpen(name, flag)
        /\ ChmodGuard(flag)
        /\ remote' = [RemoteAfterOpen(name, flag) EXCEPT ![name].mode = perm]
        /\ tOpen' = tOpen \cup {tNext}
        /\ tNext' = tNext + 1
        /\ opLog' = <<Call("OpenFile", name, flag, Nil, tNext),
                      Call("Chmod", name, perm, Nil, NoHandle)>>
        /\ opRes' = OpResult("OpenFile", name, flag, perm, tNext, NilError)
  /\ ClientFrame

ClientOpenFile ==
  \E name \in Paths, flag \in OpenFlagInputs, perm \in PermInputs :
    OpenFile(name, flag, perm)

ClientInit ==
  ClientStartState /\ NewIdle /\ DataIdle /\ SrvIdle /\ LockIdle /\ FileIdle
  /\ RdIdle /\ SetIdle /\ ListIdle /\ RaIdle /\ FsIdle /\ FhIdle /\ ThIdle
  /\ LnIdle /\ AuIdle /\ CnIdle /\ TxIdle

ClientNext ==
  \/ ClientOpenFile

SpecClient == ClientInit /\ [][ClientNext]_vars

(***************************************************************************)
(* Claims about the client adapter.                                        *)
(***************************************************************************)
\* the last operation made the transport call c, and it failed / succeeded
CallFailed(c) == \E i \in DOMAIN opLog : opLog[i].call = c /\ opLog[i].err # Nil
CallSucceeded(c) == \E i \in DOMAIN opLog : opLog[i].call = c /\ opLog[i].err = Nil

\* the transport handle the last operation opened, NoHandle when it opened none
OpenedHandle ==
  IF CallSucceeded("OpenFile")
    THEN opLog[CHOOSE i \in DOMAIN opLog : opLog[i].call = "OpenFile"].h
    ELSE NoHandle

\* C9: OpenFile with CREATE returns a handle only if the remote open and the
\* chmod(name, perm) both succeeded; if the chmod fails the opened handle is
\* closed and OpenFile returns an error and no handle.
C9_CreateNeedsChmod ==
  (opRes.op = "OpenFile" /\ "O_CREATE" \in opRes.flag) =>
     /\ opRes.file # NoHandle =>
          /\ CallSucceeded("OpenFile") /\ CallSucceeded("Chmod")
          /\ opRes.file = OpenedHandle
          /\ opRes.err = NilError
          /\ remote[opRes.name].mode = opRes.perm
     /\ CallFailed("Chmod") =>
          /\ OpenedHandle # NoHandle
          /\ OpenedHandle \notin tOpen
          /\ opRes.file = NoHandle
          /\ opRes.err # NilError
          /\ opRes.err.cause # Nil

\* an OpenFile with CREATE whose remote open succeeded and whose chmod failed
C9_Witness ==
  /\ opRes.op = "OpenFile" /\ "O_CREATE" \in opRes.flag
  /\ CallSucceeded("OpenFile") /\ CallFailed("Chmod")
  /\ opRes.file = NoHandle


\* the Chmod calls of the last operation
ChmodCalls == {i \in DOMAIN opLog : opLog[i].call = "Chmod"}

Byte == {0, 1}

\* the byte a file is filled with where nothing was written
FillByte == 0

\* the byte strings of at most n bytes
BytesUpTo(n) == UNION {[1 .. k -> Byte] : k \in 0 .. n}

Min(a, b) == IF a <= b THEN a ELSE b
Max(a, b) == IF a >= b THEN a ELSE b

\* the protocol bits of an open request (sftp.FileOpenFlags)
PflagBits == {"Read", "Write", "Append", "Creat", "Trunc", "Excl"}

\* the request library hands an open request to Filewrite when it carries
\* Write, Append, Creat or Trunc
PflagInputs ==
  {x \in SUBSET PflagBits : x \cap {"Write", "Append", "Creat", "Trunc"} # {}}

\* the protocol bits of the client's Create: O_RDWR|O_CREATE|O_TRUNC
CreatePflags == {"Read", "Write", "Creat", "Trunc"}

\* Filewrite: "Determine flags from the request"
FilewriteFlags(pflags) ==
  LET f0 == {"O_WRONLY", "O_CREATE"}
      f1 == IF "Append" \in pflags THEN f0 \cup {"O_APPEND"} ELSE f0
      f2 == IF "Trunc" \in pflags THEN f1 \cup {"O_TRUNC"} ELSE f1
      f3 == IF "Excl" \in pflags THEN f2 \cup {"O_EXCL"} ELSE f2
  IN  IF "Read" \in pflags /\ "Write" \in pflags
        THEN {"O_RDWR", "O_CREATE"}
        ELSE f3

AbsentFile == [exists |-> FALSE, data |-> <<>>]
NoServerFile == [open |-> FALSE, path |-> Nil, flags |-> {}, pos |-> 0]

Writable(flags) == flags \cap {"O_WRONLY", "O_RDWR"} # {}
Readable(flags) == "O_WRONLY" \notin flags

\* the backing filesystem's OpenFile on a file: the error, and the file after it
BackingOpenFile(file, flags) ==
  IF ~file.exists /\ "O_CREATE" \notin flags
    THEN [err |-> "notfound", file |-> file]
  ELSE IF file.exists /\ {"O_CREATE", "O_EXCL"} \subseteq flags
    THEN [err |-> "exists", file |-> file]
  ELSE [err |-> Nil,
        file |-> [exists |-> TRUE,
                  data |-> IF "O_TRUNC" \in flags /\ Writable(flags)
                             THEN <<>> ELSE file.data]]

\* data with p written over it from position pos, the gap zero-filled
OverwriteAt(data, pos, p) ==
  [i \in 1 .. Max(Len(data), pos + Len(p)) |->
     IF i > pos /\ i <= pos + Len(p) THEN p[i - pos]
     ELSE IF i <= Len(data) THEN data[i]
     ELSE FillByte]

\* file.Seek(off, io.SeekStart)
FileSeek(f, off) == [f EXCEPT !.pos = off]

\* a Write that always goes to the end of the file
WritePosMutant(f, data) == Len(data)

\* where file.Write puts its bytes: at the end of an append-mode file
WritePos(f, data) == IF "O_APPEND" \in f.flags THEN Len(data) ELSE f.pos

\* file.Write(p): the error, the file's data after it, the handle after it, n
FileWrite(f, data, p) ==
  IF ~Writable(f.flags)
    THEN [err |-> "badf", data |-> data, f |-> f, n |-> 0]
    ELSE [err |-> Nil,
          data |-> OverwriteAt(data, WritePos(f, data), p),
          f |-> [f EXCEPT !.pos = WritePos(f, data) + Len(p)],
          n |-> Len(p)]

\* file.Read(p) into a buffer of len bytes: the error, the bytes, the handle after it
FileRead(f, data, len) ==
  IF ~Readable(f.flags)
    THEN [err |-> "badf", bytes |-> <<>>, f |-> f]
  ELSE IF f.pos >= Len(data)
    THEN [err |-> "EOF", bytes |-> <<>>, f |-> f]
  ELSE [err |-> Nil,
        bytes |-> SubSeq(data, f.pos + 1, Min(f.pos + len, Len(data))),
        f |-> [f EXCEPT !.pos = Min(f.pos + len, Len(data))]]

\* serverFile.WriteAt(p, off): under f.mu, seek to off, then write
ServerFileWriteAt(f, data, p, off) == FileWrite(FileSeek(f, off), data, p)

\* serverFile.ReadAt(p, off): under f.mu, seek to off, then read
ServerFileReadAt(f, data, len, off) == FileRead(FileSeek(f, off), data, len)

\* the files a path can hold before the session starts
FileInputs ==
  {AbsentFile} \cup {[exists |-> TRUE, data |-> d] : d \in BytesUpTo(MaxLen)}

DataStartState ==
  /\ \E q \in Paths :
       /\ sf = [NoServerFile EXCEPT !.path = q]
       /\ files \in [Paths -> FileInputs]
       /\ \A x \in Paths \ {q} : files[x] \in {AbsentFile, [exists |-> TRUE, data |-> <<1>>]}
  /\ openFlags = {}
  /\ reqPflags \in PflagInputs
  /\ reqData \in BytesUpTo(MaxLen)
  /\ sent = 0 /\ readBack = <<>> /\ statSize = 0
  /\ dataPc = "start"

\* the path of the session's requests
reqPath == sf.path

\* ServerHandler.Filewrite
DataFilewrite ==
  /\ dataPc = "start"
  /\ openFlags' = FilewriteFlags(reqPflags)
  /\ LET r == BackingOpenFile(files[reqPath], FilewriteFlags(reqPflags))
     IN  /\ files' = [files EXCEPT ![reqPath] = r.file]
         /\ IF r.err # Nil
              THEN /\ sf' = sf
                   /\ dataPc' = "failed"
              ELSE /\ sf' = [open |-> TRUE, path |-> reqPath,
                             flags |-> FilewriteFlags(reqPflags), pos |-> 0]
                   /\ dataPc' = "writing"
  /\ UNCHANGED <<reqPflags, reqData, sent, readBack, statSize>>
  /\ DataFrame

\* serverFile.WriteAt for the next packet of the session's bytes
DataWriteAt ==
  /\ dataPc = "writing"
  /\ sent < Len(reqData)
  /\ LET p == SubSeq(reqData, sent + 1, Min(sent + PacketLen, Len(reqData)))
         r == ServerFileWriteAt(sf, files[reqPath].data, p, sent)
     IN  /\ files' = [files EXCEPT ![reqPath].data = r.data]
         /\ sf' = r.f
         /\ sent' = sent + r.n
  /\ UNCHANGED <<openFlags, reqPflags, reqData, readBack, statSize, dataPc>>
  /\ DataFrame

\* serverFile.Close after the last packet
DataCloseWrite ==
  /\ dataPc = "writing"
  /\ sent = Len(reqData)
  /\ sf' = [sf EXCEPT !.open = FALSE]
  /\ dataPc' = "closed"
  /\ UNCHANGED <<files, openFlags, reqPflags, reqData, sent, readBack,
                 statSize>>
  /\ DataFrame

\* ServerHandler.Fileread
DataFileread ==
  /\ dataPc = "closed"
  /\ IF files[reqPath].exists
       THEN /\ sf' = [open |-> TRUE, path |-> reqPath, flags |-> {"O_RDONLY"},
                      pos |-> 0]
            /\ dataPc' = "reading"
       ELSE /\ sf' = sf
            /\ dataPc' = "failed"
  /\ UNCHANGED <<files, openFlags, reqPflags, reqData, sent, readBack,
                 statSize>>
  /\ DataFrame

\* serverFile.ReadAt at the offset read so far, and Close at end-of-file
DataReadAt ==
  /\ dataPc = "reading"
  /\ LET r == ServerFileReadAt(sf, files[reqPath].data, PacketLen, Len(readBack))
     IN  IF r.err # Nil
           THEN /\ sf' = [r.f EXCEPT !.open = FALSE]
                /\ readBack' = readBack
                /\ dataPc' = "stat"
           ELSE /\ sf' = r.f
                /\ readBack' = readBack \o r.bytes
                /\ dataPc' = dataPc
  /\ UNCHANGED <<files, openFlags, reqPflags, reqData, sent, statSize>>
  /\ DataFrame

\* ServerHandler.Filelist, method Stat
DataStat ==
  /\ dataPc = "stat"
  /\ statSize' = Len(files[reqPath].data)
  /\ dataPc' = "done"
  /\ UNCHANGED <<files, sf, openFlags, reqPflags, reqData, sent, readBack>>
  /\ DataFrame

DataInit ==
  DataStartState /\ NewIdle /\ ClientIdle /\ SrvIdle /\ LockIdle /\ FileIdle
  /\ RdIdle /\ SetIdle /\ ListIdle /\ RaIdle /\ FsIdle /\ FhIdle /\ ThIdle
  /\ LnIdle /\ AuIdle /\ CnIdle /\ TxIdle

DataNext ==
  \/ DataFilewrite
  \/ DataWriteAt
  \/ DataCloseWrite
  \/ DataFileread
  \/ DataReadAt
  \/ DataStat

SpecData == DataInit /\ [][DataNext]_vars

(***************************************************************************)
(* Claims about the server's data path.                                    *)
(***************************************************************************)
\* C1: whatever P held, create(P), write B, close, open(P), read to the end
\* yields exactly B, and stat(P).size = |B|.
C1_RoundTrip ==
  (dataPc = "done" /\ reqPflags = CreatePflags) =>
     /\ readBack = reqData
     /\ statSize = Len(reqData)

\* C10: Filewrite opens the backing file with APPEND, TRUNCATE and EXCLUSIVE
\* exactly when the request carries the bit, read-write when the request
\* carries read and write and write-only otherwise, and always with CREATE.
C10_FlagsFollowPflags ==
  dataPc # "start" =>
     /\ ("O_APPEND" \in openFlags) = ("Append" \in reqPflags)
     /\ ("O_TRUNC" \in openFlags) = ("Trunc" \in reqPflags)
     /\ ("O_EXCL" \in openFlags) = ("Excl" \in reqPflags)
     /\ ("O_RDWR" \in openFlags) = ({"Read", "Write"} \subseteq reqPflags)
     /\ ("O_WRONLY" \in openFlags) = ~({"Read", "Write"} \subseteq reqPflags)
     /\ "O_CREATE" \in openFlags


(***************************************************************************)
(* The server runtime.  A session is one channel of one connection; before *)
(* its channel is opened its state is its connection's.                    *)
(***************************************************************************)
Conns == 1 .. MaxConns
Chans == {"ch1", "ch2"}
Sessions == Conns \X Chans

\* the lifecycle of a session
Lifecycle == <<"NEW", "HANDSHAKING", "AUTHENTICATED", "CHANNEL_OPEN", "SFTP_ACTIVE">>

SessionStateOf(cn, ch, s) == IF ch[s] # "NONE" THEN ch[s] ELSE cn[s[1]]
SessionState(s) == SessionStateOf(conn, chanSt, s)

\* the histories after the connections and channels became cn and ch
HistAfter(cn, ch) ==
  [s \in Sessions |->
     IF SessionStateOf(cn, ch, s) # SessionState(s)
       THEN Append(hist[s], SessionStateOf(cn, ch, s))
       ELSE hist[s]]

\* the channel types a client asks for
ChannelTypes == {"session", "direct-tcpip"}

\* the payloads of channel requests: a 4-byte length prefix and a name, or less
PayloadInputs ==
  {<<"0", "0", "0", "4", "s", "f", "t", "p">>,
   <<"0", "0", "0", "3", "s", "c", "p">>,
   <<"0", "0">>}
RequestTypes == {"subsystem", "shell"}

\* req.Payload[4:] is out of range
PayloadTooShort(p) == Len(p) < 4

\* string(req.Payload[4:]) == "sftp"
IsSftpPayload(p) == SubSeq(p, 5, Len(p)) = <<"s", "f", "t", "p">>

\* the state of a connection whose handshake failed: conn.Close(); return err
AfterHandshakeFailureMutant == "AUTHENTICATED"
AfterHandshakeFailure == "CLOSED"

\* the state of a channel whose request loop or SFTP server ended: channel.Close()
AfterChannelTask == "CLOSED"

\* the errors listener.Accept() fails with: the listener was closed, or another
AcceptErrors == {"closed", "emfile"}

\* Serve has not returned
NotReturned == [accept |-> Nil, ret |-> Nil]

\* if err != nil { return err }
ServeReturn(e) == e

\* a Serve that shuts the connections down when it returns
ConnsAfterServeReturnMutant(cn) == [c \in DOMAIN cn |-> "CLOSED"]

\* the connections after Serve returned: Serve does nothing to them
ConnsAfterServeReturn(cn) == cn

SrvStartState ==
  /\ servePc = "accepting"
  /\ conn = [c \in Conns |-> "NEW"]
  /\ handshake = [c \in Conns |-> "none"]
  /\ chanSt = [s \in Sessions |-> "NONE"]
  /\ hist = [s \in Sessions |-> <<"NEW">>]
  /\ served = [s \in Sessions |-> FALSE]
  /\ lastReply = "none"
  /\ crashed = FALSE
  /\ serveResult = NotReturned

\* Serve: listener.Accept() returned a connection; go s.handleConnection(conn)
SrvAccept(c) ==
  /\ servePc = "accepting"
  /\ conn[c] = "NEW"
  /\ conn' = [conn EXCEPT ![c] = "HANDSHAKING"]
  /\ hist' = HistAfter(conn', chanSt)
  /\ UNCHANGED <<servePc, handshake, chanSt, served, lastReply, crashed,
                 serveResult>>
  /\ SrvFrame

\* Serve: listener.Accept() returned an error; Serve returns it
SrvAcceptError ==
  /\ servePc = "accepting"
  /\ servePc' = "returned"
  /\ \E e \in AcceptErrors :
       serveResult' = [accept |-> e, ret |-> ServeReturn(e)]
  /\ conn' = ConnsAfterServeReturn(conn)
  /\ hist' = HistAfter(conn', chanSt)
  /\ UNCHANGED <<handshake, chanSt, served, lastReply, crashed>>
  /\ SrvFrame

\* handleConnection: ssh.NewServerConn succeeded
SrvHandshakeOK(c) ==
  /\ ~crashed
  /\ conn[c] = "HANDSHAKING"
  /\ conn' = [conn EXCEPT ![c] = "AUTHENTICATED"]
  /\ handshake' = [handshake EXCEPT ![c] = "ok"]
  /\ hist' = HistAfter(conn', chanSt)
  /\ UNCHANGED <<servePc, chanSt, served, lastReply, crashed, serveResult>>
  /\ SrvFrame

\* handleConnection: ssh.NewServerConn failed (the handshake or the authentication)
SrvHandshakeFail(c) ==
  /\ ~crashed
  /\ conn[c] = "HANDSHAKING"
  /\ conn' = [conn EXCEPT ![c] = AfterHandshakeFailure]
  /\ handshake' = [handshake EXCEPT ![c] = "failed"]
  /\ hist' = HistAfter(conn', chanSt)
  /\ UNCHANGED <<servePc, chanSt, served, lastReply, crashed, serveResult>>
  /\ SrvFrame

\* handleConnection: a new channel: reject all but sessions, accept a session
\* and hand it to its own handleChannel task
SrvNewChannel(c, k) ==
  /\ ~crashed
  /\ conn[c] = "AUTHENTICATED"
  /\ chanSt[<<c, k>>] = "NONE"
  /\ \E type \in ChannelTypes, accepted \in BOOLEAN :
       chanSt' = [chanSt EXCEPT ![<<c, k>>] =
                    IF type = "session" /\ accepted THEN "CHANNEL_OPEN"
                                                    ELSE "CLOSED"]
  /\ hist' = HistAfter(conn, chanSt')
  /\ UNCHANGED <<servePc, conn, handshake, served, lastReply, crashed,
                 serveResult>>
  /\ SrvFrame

\* handleChannel: one request of the channel
SrvChannelRequest(c, k) ==
  /\ ~crashed
  /\ conn[c] = "AUTHENTICATED"
  /\ chanSt[<<c, k>>] = "CHANNEL_OPEN"
  /\ \E type \in RequestTypes, payload \in PayloadInputs, wantReply \in BOOLEAN :
       IF type = "subsystem" /\ PayloadTooShort(payload)
         THEN \* the slice expression panics: the process ends
              /\ crashed' = TRUE
              /\ servePc' = "dead"
              /\ conn' = [x \in Conns |-> "CLOSED"]
              /\ chanSt' = [s \in Sessions |->
                              IF chanSt[s] = "NONE" THEN "NONE" ELSE "CLOSED"]
              /\ lastReply' = lastReply
         ELSE /\ IF type = "subsystem" /\ IsSftpPayload(payload)
                   THEN /\ chanSt' = [chanSt EXCEPT ![<<c, k>>] = "SFTP_ACTIVE"]
                        /\ lastReply' = IF wantReply THEN "ok" ELSE lastReply
                   ELSE /\ chanSt' = chanSt
                        /\ lastReply' = IF wantReply THEN "fail" ELSE lastReply
              /\ UNCHANGED <<crashed, servePc, conn>>
  /\ hist' = HistAfter(conn', chanSt')
  /\ UNCHANGED <<handshake, served, serveResult>>
  /\ SrvFrame

\* handleChannel: the request stream ended; the deferred channel.Close()
SrvRequestsEnd(c, k) ==
  /\ ~crashed
  /\ chanSt[<<c, k>>] = "CHANNEL_OPEN"
  /\ chanSt' = [chanSt EXCEPT ![<<c, k>>] = AfterChannelTask]
  /\ hist' = HistAfter(conn, chanSt')
  /\ UNCHANGED <<servePc, conn, handshake, served, lastReply, crashed,
                 serveResult>>
  /\ SrvFrame

\* serveSFTP: the request server hands a request to a handler
SrvServeRequest(c, k) ==
  /\ ~crashed
  /\ chanSt[<<c, k>>] = "SFTP_ACTIVE"
  /\ served' = [served EXCEPT ![<<c, k>>] = TRUE]
  /\ UNCHANGED <<servePc, conn, handshake, chanSt, hist, lastReply, crashed,
                 serveResult>>
  /\ SrvFrame

\* serveSFTP: server.Serve() returned, server.Close(); the deferred channel.Close()
SrvSftpEnd(c, k) ==
  /\ ~crashed
  /\ chanSt[<<c, k>>] = "SFTP_ACTIVE"
  /\ chanSt' = [chanSt EXCEPT ![<<c, k>>] = AfterChannelTask]
  /\ hist' = HistAfter(conn, chanSt')
  /\ UNCHANGED <<servePc, conn, handshake, served, lastReply, crashed,
                 serveResult>>
  /\ SrvFrame

\* handleConnection: the channel stream ended; the deferred sshConn.Close()
SrvDisconnect(c) ==
  /\ ~crashed
  /\ conn[c] = "AUTHENTICATED"
  /\ conn' = [conn EXCEPT ![c] = "CLOSED"]
  /\ hist' = HistAfter(conn', chanSt)
  /\ UNCHANGED <<servePc, handshake, chanSt, served, lastReply, crashed,
                 serveResult>>
  /\ SrvFrame

SrvInit ==
  SrvStartState /\ NewIdle /\ ClientIdle /\ DataIdle /\ LockIdle /\ FileIdle
  /\ RdIdle /\ SetIdle /\ ListIdle /\ RaIdle /\ FsIdle /\ FhIdle /\ ThIdle
  /\ LnIdle /\ AuIdle /\ CnIdle /\ TxIdle

SrvNext ==
  \/ SrvAcceptError
  \/ \E c \in Conns :
       \/ SrvAccept(c)
       \/ SrvHandshakeOK(c)
       \/ SrvHandshakeFail(c)
       \/ SrvDisconnect(c)
  \/ \E c \in Conns, k \in Chans :
       \/ SrvNewChannel(c, k)
       \/ SrvChannelRequest(c, k)
       \/ SrvRequestsEnd(c, k)
       \/ SrvServeRequest(c, k)
       \/ SrvSftpEnd(c, k)

SpecServer == SrvInit /\ [][SrvNext]_vars

(***************************************************************************)
(* Claims about the server runtime.                                        *)
(***************************************************************************)
\* a history that follows the lifecycle, and may end in CLOSED from any state
FollowsLifecycle(h) ==
  \E n \in 1 .. Len(Lifecycle) :
    \/ h = SubSeq(Lifecycle, 1, n)
    \/ h = Append(SubSeq(Lifecycle, 1, n), "CLOSED")

\* C2: no SFTP request is served for a connection before its handshake
\* succeeded, a session channel was accepted and an sftp subsystem request
\* was received: a session reaches SFTP_ACTIVE only through HANDSHAKING,
\* AUTHENTICATED and CHANNEL_OPEN in this order, and a failure takes it
\* directly to CLOSED.
C2_LifecycleOrder ==
  \A s \in Sessions :
    /\ FollowsLifecycle(hist[s])
    /\ hist[s][Len(hist[s])] = SessionState(s)
    /\ served[s] =>
         /\ handshake[s[1]] = "ok"
         /\ \E i \in DOMAIN hist[s] : hist[s][i] = "SFTP_ACTIVE"
    /\ handshake[s[1]] = "failed" =>
         hist[s] = <<"NEW", "HANDSHAKING", "CLOSED">>
    /\ SessionState(s) \in {"AUTHENTICATED", "CHANNEL_OPEN", "SFTP_ACTIVE"} =>
         handshake[s[1]] = "ok"

\* a session went through the whole lifecycle and had a request served
C2_Witness ==
  \E s \in Sessions :
    /\ served[s]
    /\ handshake[s[1]] = "ok"
    /\ SessionState(s) = "SFTP_ACTIVE"
    /\ hist[s] = Lifecycle


(***************************************************************************)
(* The handler lock.  Tasks are the request workers of all the sessions    *)
(* that share one ServerHandler; each runs one handler call at a time.     *)
(***************************************************************************)
Tasks == 1 .. MaxTasks

\* the handler methods and the request methods routed to each
HandlerMethods ==
  [Fileread  |-> {"Get"},
   Filewrite |-> {"Put", "Open"},
   Filecmd   |-> {"Setstat", "Rename", "Rmdir", "Mkdir", "Remove", "Symlink", "Link"},
   Filelist  |-> {"List", "Stat", "Readlink"}]
Handlers == DOMAIN HandlerMethods

NoReq == [handler |-> "none", method |-> "none"]

\* how each handler takes h.mu: RLock or Lock
LockModeMutant(handler) == "shared"
LockMode(handler) ==
  IF handler \in {"Fileread", "Filelist"} THEN "shared" ELSE "exclusive"

\* the request methods a handler answers without calling the backing filesystem
Unsupported(handler, method) == handler = "Filecmd" /\ method = "Link"

LockStartState ==
  /\ hPc = [t \in Tasks |-> "idle"]
  /\ hReq = [t \in Tasks |-> NoReq]
  /\ hRes = [t \in Tasks |-> "none"]
  /\ rwReaders = {}
  /\ rwWriter = {}

\* the request server calls a handler method, which first asks for h.mu
HandlerCall(t) ==
  /\ hPc[t] = "idle"
  /\ \E handler \in Handlers :
       \E method \in HandlerMethods[handler] :
         hReq' = [hReq EXCEPT ![t] = [handler |-> handler, method |-> method]]
  /\ hPc' = [hPc EXCEPT ![t] = "waiting"]
  /\ hRes' = [hRes EXCEPT ![t] = "none"]
  /\ UNCHANGED <<rwReaders, rwWriter>>
  /\ LockFrame

\* the tasks that wait in h.mu.RLock() / in h.mu.Lock()
WaitingReaders ==
  {u \in Tasks : hPc[u] = "waiting" /\ LockMode(hReq[u].handler) = "shared"}
WaitingWriters ==
  {u \in Tasks : hPc[u] = "waiting" /\ LockMode(hReq[u].handler) = "exclusive"}

\* the writer that has announced itself and waits for the readers to leave
PendingWriters == {u \in Tasks : hPc[u] = "pending"}

\* h.mu.Lock(), first half: the writer takes the writers' mutex and announces
\* itself; from then on RLock() waits
HandlerAnnounce(t) ==
  /\ t \in WaitingWriters
  /\ rwWriter = {} /\ PendingWriters = {}
  /\ hPc' = [hPc EXCEPT ![t] = "pending"]
  /\ UNCHANGED <<hReq, hRes, rwReaders, rwWriter>>
  /\ LockFrame

\* h.mu.RLock() returns, or h.mu.Lock() returns once the readers have left
HandlerAcquire(t) ==
  /\ IF LockMode(hReq[t].handler) = "shared"
       THEN /\ hPc[t] = "waiting"
            /\ rwWriter = {} /\ PendingWriters = {}
            /\ rwReaders' = rwReaders \cup {t}
            /\ rwWriter' = rwWriter
       ELSE /\ hPc[t] = "pending"
            /\ rwReaders = {}
            /\ rwWriter' = {t}
            /\ rwReaders' = rwReaders
  /\ hPc' = [hPc EXCEPT ![t] = "locked"]
  /\ UNCHANGED <<hReq, hRes>>
  /\ LockFrame

\* the body of the handler: its backing-filesystem calls and its result
HandlerBody(t) ==
  /\ hPc[t] = "locked"
  /\ \E failed \in BOOLEAN :
       hRes' = [hRes EXCEPT ![t] =
                  IF Unsupported(hReq[t].handler, hReq[t].method)
                    THEN "unsupported"
                    ELSE IF failed THEN "error" ELSE "ok"]
  /\ hPc' = [hPc EXCEPT ![t] = "ran"]
  /\ UNCHANGED <<hReq, rwReaders, rwWriter>>
  /\ LockFrame

\* the holders after the deferred unlock of task t
ReleaseMutant(held, t) == IF hRes[t] = "error" THEN held ELSE held \ {t}
Release(held, t) == held \ {t}

\* Unlock() lets in the readers that waited for the writer
Admitted(t) == IF t \in rwWriter THEN WaitingReaders ELSE {}

\* the handler returns: the deferred h.mu.RUnlock() or h.mu.Unlock()
HandlerReturn(t) ==
  /\ hPc[t] = "ran"
  /\ rwReaders' = Release(rwReaders, t) \cup Admitted(t)
  /\ rwWriter' = Release(rwWriter, t)
  /\ hPc' = [u \in Tasks |-> IF u = t THEN "idle"
                              ELSE IF u \in Admitted(t) THEN "locked"
                              ELSE hPc[u]]
  /\ hReq' = [hReq EXCEPT ![t] = NoReq]
  /\ UNCHANGED hRes
  /\ LockFrame

LockInit ==
  LockStartState /\ NewIdle /\ ClientIdle /\ DataIdle /\ SrvIdle /\ FileIdle
  /\ RdIdle /\ SetIdle /\ ListIdle /\ RaIdle /\ FsIdle /\ FhIdle /\ ThIdle
  /\ LnIdle /\ AuIdle /\ CnIdle /\ TxIdle

LockNext ==
  \E t \in Tasks :
    \/ HandlerCall(t)
    \/ HandlerAnnounce(t)
    \/ HandlerAcquire(t)
    \/ HandlerBody(t)
    \/ HandlerReturn(t)

SpecLock == LockInit /\ [][LockNext]_vars

\* the backing-filesystem calls return, every task keeps running, and the
\* writers' mutex hands over to a writer that waits
SpecLockFair ==
  /\ LockInit /\ [][LockNext]_vars
  /\ \A t \in Tasks : SF_vars(HandlerAnnounce(t))
  /\ \A t \in Tasks : WF_vars(HandlerAcquire(t))
  /\ \A t \in Tasks : WF_vars(HandlerBody(t))
  /\ \A t \in Tasks : WF_vars(HandlerReturn(t))

(***************************************************************************)
(* Claims about the handler lock.                                          *)
(***************************************************************************)
\* the task is between taking the lock and releasing it, where the handler
\* makes its backing-filesystem calls
Executing(t) == hPc[t] \in {"locked", "ran"}
Mutating(t) == hReq[t].handler \in {"Filewrite", "Filecmd"}

\* C3: on one handler object a Filewrite or Filecmd call never executes its
\* backing-filesystem operations while any other handler call is executing
\* its own; only Fileread and Filelist calls overlap one another.
C3_WritersExclusive ==
  \A t1, t2 \in Tasks :
    (t1 # t2 /\ Executing(t1) /\ Mutating(t1)) => ~Executing(t2)

\* a Filecmd executes while another task's Fileread waits for the lock
C3_Witness ==
  \E t1, t2 \in Tasks :
    /\ t1 # t2
    /\ Executing(t1) /\ hReq[t1].handler = "Filecmd"
    /\ hPc[t2] = "waiting" /\ hReq[t2].handler = "Fileread"

\* the tasks that hold h.mu
Holders == rwReaders \cup rwWriter

\* C38: the handler's read-write lock cannot deadlock or leak: every
\* Fileread, Filewrite, Filecmd and Filelist call releases the lock on
\* every return path (error returns included) and never asks for it while
\* holding it, so the lock is free whenever no handler call is active and
\* every pending handler call eventually acquires it, provided the
\* backing-filesystem calls return.
C38_LockState ==
  /\ Holders = {t \in Tasks : Executing(t)}
  /\ (\A t \in Tasks : hPc[t] = "idle") => Holders = {}
  /\ \A t \in Tasks : hPc[t] \in {"waiting", "pending"} => t \notin Holders

C38_NoDeadlockNoLeak ==
  /\ []C38_LockState
  /\ \A t \in Tasks : (hPc[t] \in {"waiting", "pending"}) ~> (hPc[t] = "locked")

\* C38 witness: a Filecmd that failed is about to return while another
\* task's call waits for the lock
C38_Witness ==
  \E t1, t2 \in Tasks :
    /\ t1 # t2
    /\ hPc[t1] = "ran" /\ hRes[t1] = "error" /\ hReq[t1].handler = "Filecmd"
    /\ t1 \in rwWriter
    /\ hPc[t2] = "waiting"

\* a Fileread and a Filelist execute at the same time
C3_ReadersOverlap ==
  \E t1, t2 \in Tasks :
    /\ t1 # t2
    /\ Executing(t1) /\ hReq[t1].handler = "Fileread"
    /\ Executing(t2) /\ hReq[t2].handler = "Filelist"


(***************************************************************************)
(* serverFile.ReadAt and serverFile.WriteAt called at the same time on one *)
(* open file by the request workers of its session.                        *)
(***************************************************************************)
\* the flags a serverFile's backing file can have been opened with: what
\* Filewrite computes, less the bits that act only at open, or read-only
HandleFlagInputs ==
  {FilewriteFlags(x) \ {"O_TRUNC", "O_EXCL"} : x \in PflagInputs} \cup {{"O_RDONLY"}}

\* the bytes a WriteAt of the model writes
WriteBytes == [i \in 1 .. PacketLen |-> 1]

NoCall == [kind |-> "none", off |-> 0]
NoResult == [err |-> Nil, at |-> 0, eof |-> 0, n |-> 0, bytes |-> <<>>]

\* f.mu.Lock() returns when no task holds the mutex
MutexFreeMutant(mu) == TRUE
MutexFree(mu) == mu = {}

FileStartState ==
  /\ \E flags \in HandleFlagInputs :
       fHandle = [open |-> TRUE, path |-> "/a", flags |-> flags, pos |-> 0]
  /\ fData \in {<<>>, [i \in 1 .. MaxLen |-> FillByte]}
  /\ fMu = {}
  /\ fPc = [t \in Tasks |-> "idle"]
  /\ fCall = [t \in Tasks |-> NoCall]
  /\ fRes = [t \in Tasks |-> NoResult]

\* the request server calls ReadAt or WriteAt, which first asks for f.mu
FileCall(t) ==
  /\ fPc[t] = "idle"
  /\ \E kind \in {"ReadAt", "WriteAt"}, off \in 0 .. MaxLen :
       fCall' = [fCall EXCEPT ![t] = [kind |-> kind, off |-> off]]
  /\ fPc' = [fPc EXCEPT ![t] = "waiting"]
  /\ UNCHANGED <<fHandle, fData, fMu, fRes>>
  /\ FileFrame

\* f.mu.Lock()
FileLock(t) ==
  /\ fPc[t] = "waiting"
  /\ MutexFree(fMu)
  /\ fMu' = fMu \cup {t}
  /\ fPc' = [fPc EXCEPT ![t] = "locked"]
  /\ UNCHANGED <<fHandle, fData, fCall, fRes>>
  /\ FileFrame

\* f.file.Seek(off, io.SeekStart), and the early return when it fails
FileSeekStep(t) ==
  /\ fPc[t] = "locked"
  /\ \E seekFails \in BOOLEAN :
       IF seekFails
         THEN /\ fRes' = [fRes EXCEPT ![t] = [NoResult EXCEPT !.err = "seek"]]
              /\ fPc' = [fPc EXCEPT ![t] = "ran"]
              /\ fHandle' = fHandle
         ELSE /\ fHandle' = FileSeek(fHandle, fCall[t].off)
              /\ fPc' = [fPc EXCEPT ![t] = "sought"]
              /\ fRes' = fRes
  /\ UNCHANGED <<fData, fMu, fCall>>
  /\ FileFrame

\* f.file.Read(p) or f.file.Write(p) at the handle's position
FileTransfer(t) ==
  /\ fPc[t] = "sought"
  /\ IF fCall[t].kind = "WriteAt"
       THEN LET r == FileWrite(fHandle, fData, WriteBytes)
            IN  /\ fData' = r.data
                /\ fHandle' = r.f
                /\ fRes' = [fRes EXCEPT ![t] =
                              [err |-> r.err, at |-> WritePos(fHandle, fData),
                               eof |-> Len(fData), n |-> r.n, bytes |-> <<>>]]
       ELSE LET r == FileRead(fHandle, fData, PacketLen)
            IN  /\ fData' = fData
                /\ fHandle' = r.f
                /\ fRes' = [fRes EXCEPT ![t] =
                              [err |-> r.err, at |-> fHandle.pos,
                               eof |-> Len(fData), n |-> Len(r.bytes),
                               bytes |-> r.bytes]]
  /\ fPc' = [fPc EXCEPT ![t] = "ran"]
  /\ UNCHANGED <<fMu, fCall>>
  /\ FileFrame

\* the call returns: the deferred f.mu.Unlock()
FileReturn(t) ==
  /\ fPc[t] = "ran"
  /\ fMu' = fMu \ {t}
  /\ fPc' = [fPc EXCEPT ![t] = "returned"]
  /\ UNCHANGED <<fHandle, fData, fCall, fRes>>
  /\ FileFrame

FileInit ==
  FileStartState /\ NewIdle /\ ClientIdle /\ DataIdle /\ SrvIdle /\ LockIdle
  /\ RdIdle /\ SetIdle /\ ListIdle /\ RaIdle /\ FsIdle /\ FhIdle /\ ThIdle
  /\ LnIdle /\ AuIdle /\ CnIdle /\ TxIdle

FileNext ==
  \E t \in Tasks :
    \/ FileCall(t)
    \/ FileLock(t)
    \/ FileSeekStep(t)
    \/ FileTransfer(t)
    \/ FileReturn(t)

SpecFile == FileInit /\ [][FileNext]_vars

(***************************************************************************)
(* Claims about the serverFile.                                            *)
(***************************************************************************)
\* the task has transferred bytes
Transferred(t) == fPc[t] \in {"ran", "returned"} /\ fRes[t].err = Nil
InCall(t) == fPc[t] \in {"locked", "sought", "ran"}
AppendWrite(t) == fCall[t].kind = "WriteAt" /\ "O_APPEND" \in fHandle.flags

AttrGroups == {"Size", "Permissions", "AcModTime", "UidGid"}

ModeInputs == {0, 420}
TimeInputs == {0, 1, 2}
IdInputs == {0, 1}

\* the requests: a field of a group the request does not carry is zero, as
\* r.Attributes() leaves it
SetstatRequests ==
  {r \in [carried : SUBSET AttrGroups, size : 0 .. MaxLen, mode : ModeInputs,
          atime : TimeInputs, mtime : TimeInputs, uid : IdInputs, gid : IdInputs] :
     /\ "Size" \notin r.carried => r.size = 0
     /\ "Permissions" \notin r.carried => r.mode = 0
     /\ "AcModTime" \notin r.carried => (r.atime = 0 /\ r.mtime = 0)
     /\ "UidGid" \notin r.carried => (r.uid = 0 /\ r.gid = 0)}

\* the request the client's Truncate(name, size) sends: a Setstat carrying a size
TruncateRequest(n) ==
  [carried |-> {"Size"}, size |-> n, mode |-> 0, atime |-> 0, mtime |-> 0,
   uid |-> 0, gid |-> 0]

\* a backing-filesystem call
FsCall(fn, a, b) == [fn |-> fn, a |-> a, b |-> b]

\* the guards of handleSetstat
ModeGuard(r) == r.mode # 0
TimesGuard(r) == r.atime # 0 \/ r.mtime # 0
OwnerGuard(r) == r.uid # 0 \/ r.gid # 0

\* the times handed to Chtimes: a zero time takes the other one
ChtimesAtimeMutant(r) == r.atime
ChtimesAtime(r) == IF r.atime = 0 THEN r.mtime ELSE r.atime
ChtimesMtime(r) == IF r.mtime = 0 THEN ChtimesAtime(r) ELSE r.mtime

SetStartState ==
  /\ ssReq \in SetstatRequests
  /\ ssOld \in {[i \in 1 .. k |-> 1] : k \in 0 .. MaxLen}
  /\ ssFile = [mode |-> 384, atime |-> 9, mtime |-> 9, uid |-> 5, gid |-> 5,
               data |-> ssOld]
  /\ ssCalls = <<>>
  /\ ssPc = "mode"
  /\ ssErr = Nil

\* handleSetstat: "Handle mode change"
SetstatMode ==
  /\ ssPc = "mode"
  /\ IF ModeGuard(ssReq)
       THEN /\ ssCalls' = Append(ssCalls, FsCall("Chmod", ssReq.mode, 0))
            /\ \E failed \in BOOLEAN :
                 IF failed
                   THEN ssErr' = "chmod" /\ ssPc' = "done" /\ ssFile' = ssFile
                   ELSE /\ ssFile' = [ssFile EXCEPT !.mode = ssReq.mode]
                        /\ ssPc' = "times" /\ ssErr' = ssErr
       ELSE ssPc' = "times" /\ UNCHANGED <<ssCalls, ssFile, ssErr>>
  /\ UNCHANGED <<ssReq, ssOld>>
  /\ SetFrame

\* handleSetstat: "Handle time changes"
SetstatTimes ==
  /\ ssPc = "times"
  /\ IF TimesGuard(ssReq)
       THEN /\ ssCalls' = Append(ssCalls,
                            FsCall("Chtimes", ChtimesAtime(ssReq), ChtimesMtime(ssReq)))
            /\ \E failed \in BOOLEAN :
                 IF failed
                   THEN ssErr' = "chtimes" /\ ssPc' = "done" /\ ssFile' = ssFile
                   ELSE /\ ssFile' = [ssFile EXCEPT !.atime = ChtimesAtime(ssReq),
                                                    !.mtime = ChtimesMtime(ssReq)]
                        /\ ssPc' = "owner" /\ ssErr' = ssErr
       ELSE ssPc' = "owner" /\ UNCHANGED <<ssCalls, ssFile, ssErr>>
  /\ UNCHANGED <<ssReq, ssOld>>
  /\ SetFrame

\* handleSetstat: "Handle ownership changes", and the return
SetstatOwner ==
  /\ ssPc = "owner"
  /\ IF OwnerGuard(ssReq)
       THEN /\ ssCalls' = Append(ssCalls, FsCall("Chown", ssReq.uid, ssReq.gid))
            /\ \E failed \in BOOLEAN :
                 IF failed
                   THEN ssErr' = "chown" /\ ssFile' = ssFile
                   ELSE /\ ssFile' = [ssFile EXCEPT !.uid = ssReq.uid,
                                                    !.gid = ssReq.gid]
                        /\ ssErr' = ssErr
       ELSE UNCHANGED <<ssCalls, ssFile, ssErr>>
  /\ ssPc' = "done"
  /\ UNCHANGED <<ssReq, ssOld>>
  /\ SetFrame

SetInit ==
  SetStartState /\ NewIdle /\ ClientIdle /\ DataIdle /\ SrvIdle /\ LockIdle
  /\ RdIdle /\ FileIdle /\ ListIdle /\ RaIdle /\ FsIdle /\ FhIdle /\ ThIdle
  /\ LnIdle /\ AuIdle /\ CnIdle /\ TxIdle

SetNext ==
  \/ SetstatMode
  \/ SetstatTimes
  \/ SetstatOwner

SpecSetstat == SetInit /\ [][SetNext]_vars

(***************************************************************************)
(* Claims about Setstat.                                                   *)
(***************************************************************************)
SetstatDone == ssPc = "done" /\ ssErr = Nil
Called(fn) == \E i \in DOMAIN ssCalls : ssCalls[i].fn = fn
CalledWith(fn, a, b) == \E i \in DOMAIN ssCalls : ssCalls[i] = FsCall(fn, a, b)

\* C11: for every Setstat request, whatever the attribute values, the handler
\* applies every attribute group the request carries and no other: a carried
\* mode with chmod, carried times with chtimes, carried uid+gid with chown.
C11_AppliesCarriedGroups ==
  SetstatDone =>
    /\ ("Permissions" \in ssReq.carried) = Called("Chmod")
    /\ "Permissions" \in ssReq.carried => ssFile.mode = ssReq.mode
    /\ ("AcModTime" \in ssReq.carried) = Called("Chtimes")
    /\ ("UidGid" \in ssReq.carried) = Called("Chown")
    /\ "UidGid" \in ssReq.carried =>
         (ssFile.uid = ssReq.uid /\ ssFile.gid = ssReq.gid)

\* the request has one time only: the other one is zero, as a time the
\* request does not have is
OneTimeOnly(r) == (r.atime = 0) # (r.mtime = 0)
TheOneTime(r) == IF r.atime # 0 THEN r.atime ELSE r.mtime
ChtimesCalls == {i \in DOMAIN ssCalls : ssCalls[i].fn = "Chtimes"}

\* C34: when a Setstat request carries only one of access time and
\* modification time, the handler (once it is past the mode change) calls
\* chtimes once with that time used for both the access and the modification
\* time.
C34_OneTimeForBoth ==
  (OneTimeOnly(ssReq) /\ ssPc \in {"owner", "done"} /\ ssErr # "chmod") =>
     /\ Cardinality(ChtimesCalls) = 1
     /\ CalledWith("Chtimes", TheOneTime(ssReq), TheOneTime(ssReq))
     /\ ssErr # "chtimes" =>
          (ssFile.atime = TheOneTime(ssReq) /\ ssFile.mtime = TheOneTime(ssReq))

\* C34 witness: a request with a modification time and no access time was
\* handled, and both times of the file are the modification time
C34_Witness ==
  /\ SetstatDone
  /\ ssReq.atime = 0 /\ ssReq.mtime = 2
  /\ CalledWith("Chtimes", 2, 2)
  /\ ssFile.atime = 2 /\ ssFile.mtime = 2

\* the first bytes of the old content, then zeros, n bytes in all
TruncatedTo(old, n) ==
  [i \in 1 .. n |-> IF i <= Len(old) THEN old[i] ELSE FillByte]

\* C12: a truncate(n) from the client, which reaches the server as a Setstat
\* carrying a size, leaves the backing file with exactly n bytes: the first
\* min(old size, n) bytes kept, growth zero-filled.
C12_TruncateSetsSize ==
  (SetstatDone /\ ssReq = TruncateRequest(ssReq.size)) =>
     ssFile.data = TruncatedTo(ssOld, ssReq.size)


(***************************************************************************)
(* Filelist, method List: handleList and listerat.ListAt.  An entry is     *)
(* modelled by its name, a string of bytes.                                *)
(***************************************************************************)
\* the names a directory can hold
NameInputs == {<<1>>, <<1, 0>>, <<2>>, <<0, 2>>}

\* a < b on Go strings: byte-wise lexicographic, a proper prefix first
RECURSIVE NameLess(_, _)
NameLess(a, b) ==
  IF b = <<>> THEN FALSE
  ELSE IF a = <<>> THEN TRUE
  ELSE IF a[1] # b[1] THEN a[1] < b[1]
  ELSE NameLess(Tail(a), Tail(b))

\* the orders in which the backing filesystem can enumerate the names in S
Enumerations(S) ==
  {e \in [1 .. Cardinality(S) -> S] : \A x \in S : \E i \in DOMAIN e : e[i] = x}

\* insertion of x into a sorted sequence
RECURSIVE InsertByName(_, _)
InsertByName(x, sorted) ==
  IF sorted = <<>> THEN <<x>>
  ELSE IF NameLess(x, sorted[1]) THEN <<x>> \o sorted
  ELSE <<sorted[1]>> \o InsertByName(x, Tail(sorted))

\* sort.Slice(entries, func(i, j) bool { return entries[i].Name() < entries[j].Name() })
RECURSIVE SortByName(_)
SortByNameMutant(entries) == entries
SortByName(entries) ==
  IF entries = <<>> THEN <<>>
  ELSE InsertByName(entries[1], SortByName(Tail(entries)))

\* the error of a ListAt that copied n entries into a buffer of buflen
ListAtErrorMutant(n, buflen) == Nil
ListAtError(n, buflen) == IF n < buflen THEN "EOF" ELSE Nil

\* the entries a lister serves: the slice it captured
ListerEntriesMutant(l, live) == SortByName(CHOOSE e \in Enumerations(live) : TRUE)
ListerEntries(l, live) == l.entries

\* listerat.ListAt(ls, offset) over entries E, len(ls) = buflen
ListAt(E, buflen, off) ==
  IF off >= Len(E)
    THEN [n |-> 0, out |-> <<>>, err |-> "EOF"]
    ELSE LET n == Min(buflen, Len(E) - off)
         IN  [n |-> n, out |-> SubSeq(E, off + 1, off + n),
              err |-> ListAtError(n, buflen)]

NoLister == [open |-> FALSE, entries |-> <<>>]
NoListAt == [called |-> FALSE, off |-> 0, buflen |-> 0, n |-> 0, out |-> <<>>,
             err |-> Nil, live |-> {}]

ListStartState ==
  /\ dir \in SUBSET NameInputs
  /\ lister = NoLister
  /\ snapshot = {}
  /\ la = NoListAt

\* handleList: open the directory, read all its entries, sort them by name
ListDir ==
  /\ \E failed \in BOOLEAN, e \in Enumerations(dir) :
       IF failed
         THEN UNCHANGED <<lister, snapshot>>
         ELSE /\ lister' = [open |-> TRUE, entries |-> SortByName(e)]
              /\ snapshot' = dir
  /\ la' = NoListAt
  /\ UNCHANGED dir
  /\ ListFrame

\* listerat.ListAt on the lister of the last List request
ListAtCall ==
  /\ lister.open
  /\ \E buflen \in 0 .. MaxBuf, off \in 0 .. (Cardinality(NameInputs) + 1) :
       LET r == ListAt(ListerEntries(lister, dir), buflen, off)
       IN  la' = [called |-> TRUE, off |-> off, buflen |-> buflen, n |-> r.n,
                  out |-> r.out, err |-> r.err, live |-> dir]
  /\ UNCHANGED <<dir, lister, snapshot>>
  /\ ListFrame

\* another request creates an entry in the directory
DirCreate ==
  /\ \E x \in NameInputs \ dir : dir' = dir \cup {x}
  /\ UNCHANGED <<lister, snapshot, la>>
  /\ ListFrame

\* another request removes an entry of the directory
DirRemove ==
  /\ \E x \in dir : dir' = dir \ {x}
  /\ UNCHANGED <<lister, snapshot, la>>
  /\ ListFrame

\* another request renames an entry of the directory
DirRename ==
  /\ \E x \in dir, y \in NameInputs \ dir : dir' = (dir \ {x}) \cup {y}
  /\ UNCHANGED <<lister, snapshot, la>>
  /\ ListFrame

ListInit ==
  ListStartState /\ NewIdle /\ ClientIdle /\ DataIdle /\ SrvIdle /\ LockIdle
  /\ RdIdle /\ FileIdle /\ SetIdle /\ RaIdle /\ FsIdle /\ FhIdle /\ ThIdle
  /\ LnIdle /\ AuIdle /\ CnIdle /\ TxIdle

ListNext ==
  \/ ListDir
  \/ ListAtCall
  \/ DirCreate
  \/ DirRemove
  \/ DirRename

SpecList == ListInit /\ [][ListNext]_vars

(***************************************************************************)
(* Claims about List.                                                      *)
(***************************************************************************)
Ascending(s) == \A i, j \in DOMAIN s : i < j => NameLess(s[i], s[j])
Elements(s) == {s[i] : i \in DOMAIN s}

\* the one ascending sequence of the names in S
Listing(S) == CHOOSE e \in Enumerations(S) : Ascending(e)

\* C13: the entries returned for a List request are sorted ascending by
\* name, byte-wise, for every directory content and every order in which
\* the backing filesystem enumerates it.
C13_ListSorted ==
  lister.open =>
    /\ Ascending(lister.entries)
    /\ Elements(lister.entries) = snapshot
    /\ Len(lister.entries) = Cardinality(snapshot)
    /\ la.called => Ascending(la.out)

\* a listing of all four names, from an enumeration that was not sorted
C13_Witness ==
  /\ lister.open
  /\ Len(lister.entries) = Cardinality(NameInputs)
  /\ lister.entries[1] = <<0, 2>> /\ lister.entries[2] = <<1>>
  /\ lister.entries[3] = <<1, 0>>

\* C14: ListAt(buf, off) on a lister with entries E copies
\* n = min(len(buf), max(0, len(E) - off)) entries E[off .. off+n) in order;
\* it returns end-of-file exactly when off >= len(E) or n < len(buf).
C14_ListAtContract ==
  la.called =>
    LET E == lister.entries
        n == Min(la.buflen, Max(0, Len(E) - la.off))
    IN  /\ la.n = n
        /\ la.out = SubSeq(E, la.off + 1, la.off + n)
        /\ (la.err = "EOF") = (la.off >= Len(E) \/ n < la.buflen)
        /\ la.err \in {"EOF", Nil}

\* a ListAt that stops short of its buffer: one entry of two asked, at the end
C14_Witness ==
  /\ la.called /\ la.buflen = 2 /\ la.n = 1 /\ la.err = "EOF"
  /\ la.off = Len(lister.entries) - 1

\* C15: the listing captured by a List request is immutable for the lister's
\* lifetime: creating, removing or renaming entries afterwards never changes
\* the entries, their order or their count that later ListAt calls return.
C15_ListingImmutable ==
  lister.open =>
    /\ lister.entries = Listing(snapshot)
    /\ la.called =>
         /\ la.n = Min(la.buflen, Max(0, Cardinality(snapshot) - la.off))
         /\ la.out = SubSeq(Listing(snapshot), la.off + 1, la.off + la.n)

\* a ListAt that returned entries after the directory had changed
C15_Witness ==
  /\ lister.open /\ la.called /\ la.n > 0
  /\ la.live # snapshot
  /\ Cardinality(la.live) # Cardinality(snapshot)


(***************************************************************************)
(* The client's directory handle: File.Readdir keeps the listing it        *)
(* fetched in f.dirEntries and a cursor in f.readdirPos.                   *)
(***************************************************************************)
DirNames == {"x", "y", "z"}

\* an os.FileInfo of the listing
Info(x) == [name |-> x, isDir |-> FALSE]
InfoName(e) == e.name
NamesOf(es) == [i \in DOMAIN es |-> InfoName(es[i])]

\* what the transport's ReadDir returns for a listing: a slice of FileInfo;
\* for an empty directory that slice may be nil
ReadDirResults(listing) ==
  {[isNil |-> b, items |-> [i \in DOMAIN listing |-> Info(listing[i])]] :
     b \in IF listing = <<>> THEN BOOLEAN ELSE {FALSE}}

NilSlice == [isNil |-> TRUE, items |-> <<>>]

\* "Load directory entries on first call": f.dirEntries == nil
NeedsLoad(h) == h.dirEntries.isNil

\* the cursor after a Readdir that returned count entries from position pos
AdvanceCursor(pos, count) == pos + count

\* the rest of File.Readdir(n) on a handle whose entries are loaded
ReaddirLoaded(h, n) ==
  LET E == h.dirEntries.items
      remaining == Len(E) - h.readdirPos
  IN  IF n <= 0
        THEN [h |-> [h EXCEPT !.readdirPos = Len(E)],
              out |-> SubSeq(E, h.readdirPos + 1, Len(E)), err |-> Nil]
      ELSE IF remaining = 0
        THEN [h |-> h, out |-> <<>>, err |-> "EOF"]
      ELSE [h |-> [h EXCEPT !.readdirPos =
                     AdvanceCursor(h.readdirPos, Min(n, remaining))],
            out |-> SubSeq(E, h.readdirPos + 1, h.readdirPos + Min(n, remaining)),
            err |-> Nil]

\* the n of the calls
CountInputs == (-1) .. MaxCount

NoReaddir ==
  [called |-> FALSE, kind |-> "none", n |-> 0, out |-> <<>>, err |-> Nil,
   posBefore |-> 0, afterAll |-> FALSE, loaded |-> FALSE]

\* a Readdir(n <= 0) succeeded on the handle in or before the call c
AfterAll(c) == c.afterAll \/ (c.called /\ c.n <= 0 /\ c.err = Nil)

RdStartState ==
  /\ rdRemote \in UNION {Enumerations(S) : S \in SUBSET DirNames}
  /\ rdH = [dirEntries |-> NilSlice, readdirPos |-> 0]
  /\ rdFetches = 0
  /\ rdFirst = [taken |-> FALSE, items |-> <<>>]
  /\ rdReturned = <<>>
  /\ rdLast = NoReaddir

\* File.Readdir(n), or File.Readdirnames(n), which calls it and maps the
\* entries to their names
RdCall(kind, n) ==
  /\ \/ ~NeedsLoad(rdH)
     \/ rdFetches < MaxFetches
  /\ \E failed \in BOOLEAN, fetched \in ReadDirResults(rdRemote) :
       IF NeedsLoad(rdH) /\ failed
         THEN \* f.client.ReadDir failed: return nil, err
              /\ rdLast' = [called |-> TRUE, kind |-> kind, n |-> n, out |-> <<>>,
                            err |-> "readdir", posBefore |-> rdH.readdirPos,
                            afterAll |-> AfterAll(rdLast), loaded |-> FALSE]
              /\ UNCHANGED <<rdH, rdFetches, rdFirst, rdReturned>>
         ELSE LET h1 == IF NeedsLoad(rdH)
                          THEN [dirEntries |-> fetched, readdirPos |-> 0]
                          ELSE rdH
                  r == ReaddirLoaded(h1, n)
              IN  /\ rdH' = r.h
                  /\ rdFetches' = IF NeedsLoad(rdH) THEN rdFetches + 1 ELSE rdFetches
                  /\ rdFirst' = IF NeedsLoad(rdH) /\ ~rdFirst.taken
                                  THEN [taken |-> TRUE, items |-> fetched.items]
                                  ELSE rdFirst
                  /\ rdReturned' = rdReturned \o NamesOf(r.out)
                  /\ rdLast' = [called |-> TRUE, kind |-> kind, n |-> n,
                                out |-> IF kind = "Readdirnames" /\ r.err = Nil
                                          THEN NamesOf(r.out) ELSE r.out,
                                err |-> r.err, posBefore |-> h1.readdirPos,
                                afterAll |-> AfterAll(rdLast),
                                loaded |-> NeedsLoad(rdH)]
  /\ UNCHANGED rdRemote
  /\ RdFrame

RdReaddir == \E n \in CountInputs : RdCall("Readdir", n)
RdReaddirnames == \E n \in CountInputs : RdCall("Readdirnames", n)

\* someone creates an entry in the remote directory
RdRemoteCreate ==
  /\ \E x \in DirNames :
       /\ \A i \in DOMAIN rdRemote : rdRemote[i] # x
       /\ rdRemote' = Append(rdRemote, x)
  /\ UNCHANGED <<rdH, rdFetches, rdFirst, rdReturned, rdLast>>
  /\ RdFrame

\* someone removes an entry of the remote directory
RdRemoteRemove ==
  /\ \E i \in DOMAIN rdRemote :
       rdRemote' = SubSeq(rdRemote, 1, i - 1) \o SubSeq(rdRemote, i + 1, Len(rdRemote))
  /\ UNCHANGED <<rdH, rdFetches, rdFirst, rdReturned, rdLast>>
  /\ RdFrame

RdInit ==
  RdStartState /\ NewIdle /\ ClientIdle /\ DataIdle /\ SrvIdle /\ LockIdle
  /\ FileIdle /\ SetIdle /\ ListIdle /\ RaIdle /\ FsIdle /\ FhIdle /\ ThIdle
  /\ LnIdle /\ AuIdle /\ CnIdle /\ TxIdle

RdNext ==
  \/ RdReaddir
  \/ RdReaddirnames
  \/ RdRemoteCreate
  \/ RdRemoteRemove

SpecReaddir == RdInit /\ [][RdNext]_vars


(***************************************************************************)
(* Claims about the client's directory handle.                             *)
(***************************************************************************)
\* the last call returned from Readdir's body, not from a failed fetch
ReaddirRan == rdLast.called /\ rdLast.err # "readdir"

\* the listing the handle captured on its first Readdir
Captured == rdFirst.items

\* the captured entries, or for Readdirnames their names, at positions from .. to
Expected(from, to) ==
  IF rdLast.kind = "Readdirnames"
    THEN NamesOf(SubSeq(Captured, from, to))
    ELSE SubSeq(Captured, from, to)

IsPrefix(s, t) == Len(s) <= Len(t) /\ s = SubSeq(t, 1, Len(s))

\* C16: Readdir(n) with n > 0 returns the next min(n, remaining) entries
\* starting at the cursor and advances the cursor by that many; when no
\* entries remain it returns no entries together with end-of-file.
C16_ReaddirNext ==
  (ReaddirRan /\ rdLast.n > 0) =>
    LET c == rdLast.posBefore
        remaining == Len(Captured) - c
        k == Min(rdLast.n, remaining)
    IN  IF remaining = 0
          THEN rdLast.out = <<>> /\ rdLast.err = "EOF" /\ rdH.readdirPos = c
          ELSE /\ rdLast.err = Nil
               /\ rdH.readdirPos = c + k
               /\ rdLast.out = Expected(c + 1, c + k)

\* C17: Readdir(n) with n <= 0 returns every entry from the cursor to the
\* end and moves the cursor to the end; every later Readdir(n <= 0) on the
\* same handle returns an empty result with no error.
C17_ReaddirAll ==
  (ReaddirRan /\ rdLast.n <= 0) =>
    /\ rdLast.err = Nil
    /\ rdH.readdirPos = Len(Captured)
    /\ rdLast.out = Expected(rdLast.posBefore + 1, Len(Captured))
    /\ rdLast.afterAll => rdLast.out = <<>>

\* C18: for any sequence of Readdir and Readdirnames calls on one handle
\* over a directory with k entries, 0 <= cursor <= k and the cursor never
\* decreases, the concatenation of all results is a prefix of the captured
\* listing, and once k entries were returned the next call with n > 0
\* returns end-of-file.
C18_CursorAndPrefix ==
  /\ rdH.readdirPos >= 0
  /\ rdH.readdirPos <= Len(Captured)
  /\ rdLast.called => rdH.readdirPos >= rdLast.posBefore
  /\ IsPrefix(rdReturned, NamesOf(Captured))
  /\ (ReaddirRan /\ rdLast.n > 0
        /\ Len(rdReturned) - Len(rdLast.out) = Len(Captured)) =>
       rdLast.err = "EOF"

\* C19: a handle fetches its listing from the transport only on its first
\* Readdir; later calls are served from that captured listing, so the
\* transport ReadDir succeeds at most once per handle.
C19_FetchOnce ==
  /\ rdFetches <= 1
  /\ rdFirst.taken => rdH.dirEntries.items = Captured
  /\ (rdLast.called /\ rdLast.loaded) => rdFetches = 1

(***************************************************************************)
(* FileSystem.RemoveAll and removeAllDir.  A path is the sequence of its   *)
(* names; the remote tree says what each path holds.                       *)
(***************************************************************************)
TreePaths == {<<"p">>, <<"p", "a">>, <<"p", "a", "b">>, <<"p", "c">>}

Parent(q) == SubSeq(q, 1, Len(q) - 1)
BaseName(q) == q[Len(q)]

\* fullPath := path + "/" + entry.Name()
JoinPath(q, name) == Append(q, name)

\* the trees: an entry exists only in a directory; b and c are never directories
Trees ==
  {t \in [TreePaths -> {"absent", "file", "dir"}] :
     /\ \A q \in TreePaths :
          (Len(q) > 1 /\ t[q] # "absent") => t[Parent(q)] = "dir"
     /\ t[<<"p", "a", "b">>] # "dir"
     /\ t[<<"p", "c">>] # "dir"}

\* the names in directory q of tree t
ChildNames(t, q) ==
  {BaseName(x) : x \in {y \in TreePaths : Len(y) > 1 /\ Parent(y) = q /\ t[y] # "absent"}}

\* a transport call and how it ended
RaCall(fn, q, err) == [fn |-> fn, path |-> q, err |-> err]

\* the error of RemoveAll when the first Stat fails
StatFailureResult(q, err) == WrapError("RemoveAll.Stat", q, err)

RaFrame(q) == [path |-> q, loaded |-> FALSE, entries |-> <<>>]

\* a loop that gives up after its first entry
RestOfEntriesMutant(entries) == <<>>

\* for _, entry := range entries: the entries still to visit after this one
RestOfEntries(entries) == Tail(entries)

RaStartState ==
  /\ raTree \in Trees
  /\ raTree0 = raTree
  /\ raTarget \in TreePaths
  /\ raStack = <<>>
  /\ raLog = <<>>
  /\ raPc = "stat"
  /\ raResult = NilError

\* RemoveAll: fs.client.Stat(path), and the return when it fails
RaStat ==
  /\ raPc = "stat"
  /\ \E failed \in BOOLEAN :
       LET err == IF raTree[raTarget] = "absent" THEN "notexist"
                  ELSE IF failed THEN "io" ELSE Nil
       IN  /\ raLog' = Append(raLog, RaCall("Stat", raTarget, err))
           /\ IF err # Nil
                THEN /\ raResult' = StatFailureResult(raTarget, err)
                     /\ raPc' = "done"
                     /\ raStack' = raStack
                ELSE /\ raResult' = raResult
                     /\ IF raTree[raTarget] = "dir"
                          THEN raPc' = "dir" /\ raStack' = <<RaFrame(raTarget)>>
                          ELSE raPc' = "file" /\ raStack' = raStack
  /\ UNCHANGED <<raTree, raTree0, raTarget>>
  /\ RaFrameOthers

\* RemoveAll on a file: fs.client.Remove(path)
RaRemoveFile ==
  /\ raPc = "file"
  /\ \E failed \in BOOLEAN :
       LET err == IF failed THEN "io" ELSE Nil
       IN  /\ raLog' = Append(raLog, RaCall("Remove", raTarget, err))
           /\ raResult' = WrapError("RemoveAll", raTarget, err)
           /\ raTree' = IF failed THEN raTree
                        ELSE [raTree EXCEPT ![raTarget] = "absent"]
  /\ raPc' = "done"
  /\ UNCHANGED <<raTree0, raTarget, raStack>>
  /\ RaFrameOthers

\* an error inside removeAllDir: every call in progress returns it
RaFail(call) ==
  /\ raLog' = Append(raLog, call)
  /\ raResult' = WrapError("RemoveAll", raTarget, call.err)
  /\ raStack' = <<>>
  /\ raPc' = "done"
  /\ raTree' = raTree

\* removeAllDir: fs.client.ReadDir(path)
RaReadDir ==
  /\ raPc = "dir"
  /\ LET top == raStack[Len(raStack)]
     IN  /\ ~top.loaded
         /\ \E failed \in BOOLEAN, e \in Enumerations(ChildNames(raTree, top.path)) :
              IF failed
                THEN RaFail(RaCall("ReadDir", top.path, "io"))
                ELSE /\ raLog' = Append(raLog, RaCall("ReadDir", top.path, Nil))
                     /\ raStack' = [raStack EXCEPT ![Len(raStack)] =
                                      [top EXCEPT !.loaded = TRUE, !.entries = e]]
                     /\ UNCHANGED <<raTree, raResult, raPc>>
  /\ UNCHANGED <<raTree0, raTarget>>
  /\ RaFrameOthers

\* removeAllDir: the next entry: a sub-directory is entered, a file removed
RaEntry ==
  /\ raPc = "dir"
  /\ LET top == raStack[Len(raStack)]
         fullPath == JoinPath(top.path, top.entries[1])
     IN  /\ top.loaded
         /\ top.entries # <<>>
         /\ IF raTree[fullPath] = "dir"
              THEN /\ raStack' = Append(raStack, RaFrame(fullPath))
                   /\ UNCHANGED <<raTree, raLog, raResult, raPc>>
              ELSE \E failed \in BOOLEAN :
                     IF failed
                       THEN RaFail(RaCall("Remove", fullPath, "io"))
                       ELSE /\ raLog' = Append(raLog, RaCall("Remove", fullPath, Nil))
                            /\ raTree' = [raTree EXCEPT ![fullPath] = "absent"]
                            /\ raStack' = [raStack EXCEPT ![Len(raStack)] =
                                             [top EXCEPT !.entries = RestOfEntries(top.entries)]]
                            /\ UNCHANGED <<raResult, raPc>>
  /\ UNCHANGED <<raTree0, raTarget>>
  /\ RaFrameOthers

\* removeAllDir: "Finally remove the directory itself", and the return
RaRemoveDir ==
  /\ raPc = "dir"
  /\ LET top == raStack[Len(raStack)]
         rest == SubSeq(raStack, 1, Len(raStack) - 1)
     IN  /\ top.loaded
         /\ top.entries = <<>>
         /\ \E failed \in BOOLEAN :
              IF failed
                THEN RaFail(RaCall("Remove", top.path, "io"))
                ELSE /\ raLog' = Append(raLog, RaCall("Remove", top.path, Nil))
                     /\ raTree' = [raTree EXCEPT ![top.path] = "absent"]
                     /\ IF rest = <<>>
                          THEN /\ raStack' = <<>>
                               /\ raResult' = WrapError("RemoveAll", raTarget, Nil)
                               /\ raPc' = "done"
                          ELSE /\ raStack' = [rest EXCEPT ![Len(rest)].entries =
                                                RestOfEntries(rest[Len(rest)].entries)]
                               /\ UNCHANGED <<raResult, raPc>>
  /\ UNCHANGED <<raTree0, raTarget>>
  /\ RaFrameOthers

RaInit ==
  RaStartState /\ NewIdle /\ ClientIdle /\ DataIdle /\ SrvIdle /\ LockIdle
  /\ FileIdle /\ SetIdle /\ ListIdle /\ RdIdle /\ FsIdle /\ FhIdle /\ ThIdle
  /\ LnIdle /\ AuIdle /\ CnIdle /\ TxIdle

RaNext ==
  \/ RaStat
  \/ RaRemoveFile
  \/ RaReadDir
  \/ RaEntry
  \/ RaRemoveDir

SpecRemoveAll == RaInit /\ [][RaNext]_vars

\* RemoveAll runs on the caller's goroutine and every transport call returns,
\* so a call that can take a step takes it
SpecRemoveAllFair == RaInit /\ [][RaNext]_vars /\ WF_vars(RaNext)

(***************************************************************************)
(* Claims about RemoveAll.                                                 *)
(***************************************************************************)
\* C20: RemoveAll(P) on a path P that does not exist returns no error and
\* changes nothing on the remote.
C20_AbsentIsNoError ==
  (raPc = "done" /\ raTree0[raTarget] = "absent") =>
     /\ raResult.cause = Nil
     /\ raTree = raTree0

\* the paths below q, and what existed there when RemoveAll was called
Below(q) == {d \in TreePaths : Len(d) > Len(q) /\ SubSeq(d, 1, Len(q)) = q}
ExistedBelow(q) == {d \in Below(q) : raTree0[d] # "absent"}

\* Remove(q) has succeeded among the first k transport calls
RemovedBefore(q, k) ==
  \E j \in 1..k : j <= Len(raLog) /\ raLog[j] = RaCall("Remove", q, Nil)

RaSucceeded == raPc = "done" /\ raResult.cause = Nil

C21_PostOrderState ==
  /\ \A i \in 1..Len(raLog) :
       (raLog[i].fn = "Remove" /\ raTree0[raLog[i].path] = "dir") =>
          \A d \in ExistedBelow(raLog[i].path) : RemovedBefore(d, i - 1)
  /\ (RaSucceeded /\ raTree0[raTarget] = "dir") =>
        /\ raLog[Len(raLog)] = RaCall("Remove", raTarget, Nil)
        /\ \A d \in Below(raTarget) \cup {raTarget} : raTree[d] = "absent"

\* C21: RemoveAll(P) on a directory removes in post-order: Remove of a
\* directory is issued only after Remove succeeded for everything in it, P is
\* removed last, after a successful return P and its descendants are gone, and
\* the traversal always terminates.
C21_PostOrder == [](C21_PostOrderState) /\ <>(raPc = "done")

\* C21 witness: a successful RemoveAll of the directory p that held the
\* sub-directory a with the file b in it.
C21_Witness ==
  /\ RaSucceeded
  /\ raTarget = <<"p">>
  /\ raTree0[<<"p", "a", "b">>] = "file"
  /\ raTree0[<<"p", "c">>] = "file"

(***************************************************************************)
(* The FileSystem methods that take paths: each hands the caller's path to *)
(* the transport and wraps the transport's error.  Chdir and Getwd keep    *)
(* the working directory, a string of the FileSystem value.                *)
(***************************************************************************)
\* the paths a caller supplies; "d" is a relative one
FsPaths == {"/", "/d", "d"}
FsPermInputs == {"0700", "0755"}
FsKinds == {"absent", "file", "dir"}

\* cwd: "/", // Start at root directory
InitialCwd == "/"

\* the path a method hands to the transport for the caller's path: the
\* working directory takes no part in it
WirePathMutant(cwd, name) == cwd
WirePath(cwd, name) == name

\* one transport call: fs.client.<fn>(paths..., arg) and the error it returned
ClientCall(fn, paths, arg, err) == [fn |-> fn, paths |-> paths, arg |-> arg, err |-> err]

\* a method call: its arguments, the error and the value it returned
FsReturn(op, paths, arg, err, ret) ==
  [op |-> op, paths |-> paths, arg |-> arg, err |-> err, ret |-> ret]

NoFsOp == FsReturn(Nil, <<>>, Nil, NilError, Nil)

\* wrapErrorf("Rename(%s -> %s): %w", oldpath, newpath, err), called with err # nil
WrapErrorf(op, oldpath, newpath, err) ==
  [op |-> op, path |-> <<oldpath, newpath>>, cause |-> err]

\* the kinds a caller asks about: os.ErrNotExist, os.ErrExist
ErrorKinds == {"notexist", "exists"}

\* errors.Is(err, kind) on an error of this package: fmt.Errorf's %w keeps the
\* cause, and Is follows it
ErrorsIs(err, kind) == err.cause = kind

\* errors.Is(e, kind) on the transport's own error
TransportIs(e, kind) == e = kind

\* the errors the transport can answer a call on a path of this kind with
TransportErrors(fn, kind) ==
  CASE fn = "Mkdir" -> IF kind = "absent" THEN {Nil, "io"} ELSE {"exists"}
    [] fn = "MkdirAll" -> IF kind = "file" THEN {"exists"} ELSE {Nil, "io"}
    [] OTHER -> IF kind = "absent" THEN {"notexist"} ELSE {Nil, "io"}

\* the remote after a successful transport call
RemoteAfter(t, fn, q) ==
  CASE fn \in {"Mkdir", "MkdirAll"} -> [t EXCEPT ![q] = "dir"]
    [] fn = "Remove" /\ q # "/" -> [t EXCEPT ![q] = "absent"]
    [] OTHER -> t

\* the methods that make one transport call with the caller's path, and the call
\* each makes: Remove, Stat, Chmod, Chtimes, Chown, MkdirAll, Truncate, Lstat,
\* Lchown, Readlink
SingleCall ==
  [Remove |-> "Remove", Stat |-> "Stat", Chmod |-> "Chmod", Chtimes |-> "Chtimes",
   Chown |-> "Chown", MkdirAll |-> "MkdirAll", Truncate |-> "Truncate",
   Lstat |-> "Lstat", Lchown |-> "Chown", Readlink |-> "ReadLink"]

\* the methods that make one transport call with two paths
PairCall == [Rename |-> "Rename", Symlink |-> "Symlink"]

FsStartState ==
  /\ fsRemote \in {t \in [FsPaths -> FsKinds] : t["/"] = "dir"}
  /\ fsCwd = InitialCwd
  /\ fsPrevCwd = InitialCwd
  /\ fsLog = <<>>
  /\ fsOp = NoFsOp

\* Mkdir goes on to the chmod
MkdirContinuesMutant(err) == TRUE
MkdirContinues(err) == err = Nil

\* FileSystem.Mkdir(name, perm)
FsMkdir ==
  \E name \in FsPaths, perm \in FsPermInputs :
    LET q == WirePath(fsCwd, name) IN
    \E e1 \in TransportErrors("Mkdir", fsRemote[q]) :
      LET t1 == IF e1 = Nil THEN RemoteAfter(fsRemote, "Mkdir", q) ELSE fsRemote IN
      /\ IF MkdirContinues(e1)
           THEN \E e2 \in TransportErrors("Chmod", t1[q]) :
                  /\ fsLog' = <<ClientCall("Mkdir", <<q>>, Nil, e1),
                                ClientCall("Chmod", <<q>>, perm, e2)>>
                  /\ fsOp' = FsReturn("Mkdir", <<name>>, perm,
                                      WrapError("Mkdir.Chmod", name, e2), Nil)
           ELSE /\ fsLog' = <<ClientCall("Mkdir", <<q>>, Nil, e1)>>
                /\ fsOp' = FsReturn("Mkdir", <<name>>, perm,
                                    WrapError("Mkdir", name, e1), Nil)
      /\ fsRemote' = t1
      /\ fsPrevCwd' = fsCwd
      /\ fsCwd' = fsCwd
      /\ FsFrame

\* Chdir's test of the info that Stat returned
ChdirAcceptsMutant(kind) == TRUE
ChdirAccepts(kind) == kind = "dir"

\* FileSystem.Chdir(dir)
FsChdir ==
  \E target \in FsPaths :
    LET q == WirePath(fsCwd, target) IN
    \E e \in TransportErrors("Stat", fsRemote[q]) :
      /\ fsLog' = <<ClientCall("Stat", <<q>>, Nil, e)>>
      /\ fsPrevCwd' = fsCwd
      /\ IF e # Nil
           THEN /\ fsOp' = FsReturn("Chdir", <<target>>, Nil,
                                    WrapError("Chdir.Stat", target, e), Nil)
                /\ fsCwd' = fsCwd
           ELSE IF ~ChdirAccepts(fsRemote[q])
                  THEN /\ fsOp' = FsReturn("Chdir", <<target>>, Nil,
                                           WrapError("Chdir", target, "invalid"), Nil)
                       /\ fsCwd' = fsCwd
                  ELSE /\ fsOp' = FsReturn("Chdir", <<target>>, Nil, NilError, Nil)
                       /\ fsCwd' = target
      /\ fsRemote' = fsRemote
      /\ FsFrame

\* FileSystem.Getwd()
FsGetwd ==
  /\ fsOp' = FsReturn("Getwd", <<>>, Nil, NilError, fsCwd)
  /\ fsLog' = <<>>
  /\ fsPrevCwd' = fsCwd
  /\ UNCHANGED <<fsRemote, fsCwd>>
  /\ FsFrame

\* a method that is one transport call with the caller's path
FsSingle ==
  \E op \in DOMAIN SingleCall, name \in FsPaths :
    LET fn == SingleCall[op]
        q == WirePath(fsCwd, name) IN
    \E e \in TransportErrors(fn, fsRemote[q]) :
      /\ fsLog' = <<ClientCall(fn, <<q>>, Nil, e)>>
      /\ fsOp' = FsReturn(op, <<name>>, Nil, WrapError(op, name, e), Nil)
      /\ fsRemote' = IF e = Nil THEN RemoteAfter(fsRemote, fn, q) ELSE fsRemote
      /\ fsPrevCwd' = fsCwd
      /\ fsCwd' = fsCwd
      /\ FsFrame

\* Rename(oldpath, newpath) and Symlink(oldname, newname)
FsPair ==
  \E op \in DOMAIN PairCall, a \in FsPaths, b \in FsPaths :
    LET fn == PairCall[op]
        qa == WirePath(fsCwd, a)
        qb == WirePath(fsCwd, b)
        errs == IF fn = "Rename" THEN TransportErrors(fn, fsRemote[qa])
                ELSE {Nil, "io"} IN
    \E e \in errs :
      /\ fsLog' = <<ClientCall(fn, <<qa, qb>>, Nil, e)>>
      /\ fsOp' = FsReturn(op, <<a, b>>, Nil,
                          IF e = Nil THEN NilError ELSE WrapErrorf(op, a, b, e), Nil)
      /\ fsRemote' = IF e = Nil /\ fn = "Rename" /\ qa # "/" /\ qb # "/" /\ qa # qb
                       THEN [fsRemote EXCEPT ![qb] = fsRemote[qa], ![qa] = "absent"]
                       ELSE fsRemote
      /\ fsPrevCwd' = fsCwd
      /\ fsCwd' = fsCwd
      /\ FsFrame

FsInit ==
  FsStartState /\ NewIdle /\ ClientIdle /\ DataIdle /\ SrvIdle /\ LockIdle
  /\ FileIdle /\ SetIdle /\ ListIdle /\ RdIdle /\ RaIdle /\ FhIdle /\ ThIdle
  /\ LnIdle /\ AuIdle /\ CnIdle /\ TxIdle

FsNext ==
  \/ FsMkdir
  \/ FsChdir
  \/ FsGetwd
  \/ FsSingle
  \/ FsPair

SpecFs == FsInit /\ [][FsNext]_vars

(***************************************************************************)
(* Claims about the path methods and the working directory.                *)
(***************************************************************************)
\* the last method made the transport call fn / it succeeded
FsCalled(fn) == \E i \in DOMAIN fsLog : fsLog[i].fn = fn
FsCallOk(fn) == \E i \in DOMAIN fsLog : fsLog[i].fn = fn /\ fsLog[i].err = Nil

\* C22: Mkdir issues the transport mkdir and then, only if it succeeded, a
\* chmod(name, perm); no chmod when mkdir failed; success only when both
\* succeeded.
C22_MkdirThenChmod ==
  fsOp.op = "Mkdir" =>
    /\ fsLog[1] \in {ClientCall("Mkdir", fsOp.paths, Nil, e) : e \in {Nil, "io", "exists"}}
    /\ IF fsLog[1].err = Nil
         THEN /\ Len(fsLog) = 2
              /\ fsLog[2].fn = "Chmod" /\ fsLog[2].paths = fsOp.paths
              /\ fsLog[2].arg = fsOp.arg
         ELSE Len(fsLog) = 1
    /\ (fsOp.err.cause = Nil) <=> (FsCallOk("Mkdir") /\ FsCallOk("Chmod"))

\* C22 witness: a Mkdir whose mkdir succeeded and whose chmod failed
C22_Witness ==
  /\ fsOp.op = "Mkdir"
  /\ FsCallOk("Mkdir") /\ FsCalled("Chmod") /\ ~FsCallOk("Chmod")
  /\ fsOp.err.cause # Nil

\* the path the last method was called with
FsTarget == fsOp.paths[1]

\* C23: Chdir(dir) succeeds exactly when stat(dir) succeeds and reports a
\* directory; after a successful Chdir the working directory, which Getwd
\* returns, is dir; after a failed Chdir it keeps its previous value; the
\* working directory of a new filesystem is "/".
C23_Chdir ==
  /\ fsOp.op = Nil => fsCwd = "/"
  /\ fsOp.op = "Chdir" =>
       /\ fsLog = <<ClientCall("Stat", <<FsTarget>>, Nil, fsLog[1].err)>>
       /\ (fsOp.err.cause = Nil) <=>
            (fsLog[1].err = Nil /\ fsRemote[FsTarget] = "dir")
       /\ fsCwd = IF fsOp.err.cause = Nil THEN FsTarget ELSE fsPrevCwd
  /\ fsOp.op = "Getwd" =>
       /\ fsOp.ret = fsCwd /\ fsOp.err = NilError
  /\ fsOp.op \notin {Nil, "Chdir"} => fsCwd = fsPrevCwd

\* C23 witness: a Chdir to a path that exists and is no directory, after an
\* earlier Chdir had moved the working directory away from "/"
C23_Witness ==
  /\ fsOp.op = "Chdir" /\ fsRemote[FsTarget] = "file"
  /\ fsLog[1].err = Nil
  /\ fsPrevCwd # "/"

\* C24: the working directory never influences what is sent to the
\* transport: every transport call of a method carries exactly the path or
\* paths the caller supplied.
C24_WirePathsAsGiven ==
  \A i \in DOMAIN fsLog : fsLog[i].paths = fsOp.paths

\* C24 witness: a method called with the relative path d while the working
\* directory is /d.
C24_Witness ==
  /\ fsOp.op \in {"Stat", "Mkdir", "Remove"}
  /\ fsPrevCwd = "/d" /\ fsOp.paths = <<"d">>
  /\ fsLog # <<>>

\* the transport call of the last method that failed, if one did
FsFailedCalls == {i \in DOMAIN fsLog : fsLog[i].err # Nil}

\* a failed method's error wraps the error of its failed transport call: the
\* kind predicates say of it what they say of the transport's error
FsWrapsTransport ==
  (fsOp.op # Nil /\ FsFailedCalls # {}) =>
     /\ fsOp.err.cause # Nil
     /\ fsOp.err.op # Nil
     /\ \E i \in FsFailedCalls :
          \A k \in ErrorKinds :
            ErrorsIs(fsOp.err, k) <=> TransportIs(fsLog[i].err, k)

\* Chdir to something that is no directory
FsChdirToNonDir ==
  fsOp.op = "Chdir" /\ fsLog[1].err = Nil /\ fsRemote[FsTarget] # "dir"

Files == 1..MaxHandles

\* what the transport's Close returns: the first call closes the handle and
\* returns nil or the error of the exchange; a later call finds the handle
\* gone and returns an error
TransportClose(t) == IF t.closed THEN {"closed", "io"} ELSE {Nil, "io"}

FhStartState ==
  /\ fhT = [f \in Files |-> [closed |-> FALSE, closes |-> 0, pos |-> 0]]
  /\ fhRes = [f \in Files |-> <<>>]
  /\ fhLast = [file |-> 0, op |-> Nil, err |-> Nil]

\* File.Close: return f.file.Close()
FhClose ==
  \E f \in Files, e \in {Nil, "io", "closed"} :
    /\ Len(fhRes[f]) < MaxCloses
    /\ e \in TransportClose(fhT[f])
    /\ fhT' = [fhT EXCEPT ![f].closed = TRUE, ![f].closes = @ + 1]
    /\ fhRes' = [fhRes EXCEPT ![f] = Append(@, e)]
    /\ fhLast' = [file |-> f, op |-> "Close", err |-> e]
    /\ FhFrame

\* File.Seek(offset, io.SeekStart): return f.file.Seek(offset, whence)
FhSeek ==
  \E f \in Files, off \in 0..MaxLen :
    /\ IF fhT[f].closed
         THEN /\ fhLast' = [file |-> f, op |-> "Seek", err |-> "closed"]
              /\ fhT' = fhT
         ELSE /\ fhLast' = [file |-> f, op |-> "Seek", err |-> Nil]
              /\ fhT' = [fhT EXCEPT ![f].pos = off]
    /\ fhRes' = fhRes
    /\ FhFrame

FhInit ==
  FhStartState /\ NewIdle /\ ClientIdle /\ DataIdle /\ SrvIdle /\ LockIdle
  /\ FileIdle /\ SetIdle /\ ListIdle /\ RdIdle /\ RaIdle /\ FsIdle /\ ThIdle
  /\ LnIdle /\ AuIdle /\ CnIdle /\ TxIdle

FhNext ==
  \/ FhClose
  \/ FhSeek

SpecFileHandle == FhInit /\ [][FhNext]_vars

(***************************************************************************)
(* Claims about the client File.                                           *)
(***************************************************************************)
\* C25: File.Close is idempotent: a second Close on the same handle does not
\* close the transport handle a second time and returns the same result
\* (the first close's error, or nil) as the first Close.
C25_CloseIdempotent ==
  \A f \in Files :
    /\ fhT[f].closes <= 1
    /\ \A i \in DOMAIN fhRes[f] : fhRes[f][i] = fhRes[f][1]

(***************************************************************************)
(* Two open requests on one path.  Fileread and Filewrite call             *)
(* h.fs.OpenFile for every request, so each serverFile has a backing file  *)
(* handle, and with it a position, of its own.                             *)
(***************************************************************************)
ServerFiles == {1, 2}

\* the flags a serverFile's backing file is opened with: Fileread's, and
\* Filewrite's for the open requests of a read-write, a write and an append open
TwoHandleFlagInputs ==
  {{"O_RDONLY"}} \cup
  {FilewriteFlags(pf) : pf \in {{"Read", "Write"}, {"Write"}, {"Write", "Append"}}}

\* the backing handle whose position a serverFile's calls use
CursorOfMutant(h) == 1
\* &serverFile{file: f, path: r.Filepath}: the handle this request opened
CursorOf(h) == h

\* the calls: positional through the serverFile, sequential on its backing file
ThCall(h, kind, off, p, res) ==
  [h |-> h, kind |-> kind, off |-> off, p |-> p, err |-> res.err, bytes |-> res.bytes]

ThStartState ==
  /\ thData \in {<<>>, [i \in 1..MaxLen |-> FillByte]}
  /\ thH \in [ServerFiles ->
                {[open |-> TRUE, path |-> "/a", flags |-> fl, pos |-> 0] :
                   fl \in TwoHandleFlagInputs}]
  /\ thPrev = [data |-> thData, pos |-> [h \in ServerFiles |-> 0]]
  /\ thLast = ThCall(0, Nil, 0, <<>>, [err |-> Nil, bytes |-> <<>>])

ThSnapshot == [data |-> thData, pos |-> [h \in ServerFiles |-> thH[h].pos]]

\* serverFile.ReadAt(p, off) with len(p) = PacketLen
ThReadAt ==
  \E h \in ServerFiles, off \in 0..MaxLen :
    LET c == CursorOf(h)
        r == ServerFileReadAt(thH[c], thData, PacketLen, off) IN
    /\ thH' = [thH EXCEPT ![c] = r.f]
    /\ thLast' = ThCall(h, "ReadAt", off, <<>>, r)
    /\ thPrev' = ThSnapshot
    /\ thData' = thData
    /\ ThFrame

\* serverFile.WriteAt(p, off)
ThWriteAt ==
  \E h \in ServerFiles, off \in 0..MaxLen, p \in [1..PacketLen -> {1}] :
    LET c == CursorOf(h)
        r == ServerFileWriteAt(thH[c], thData, p, off) IN
    /\ Len(r.data) <= MaxLen + PacketLen
    /\ thH' = [thH EXCEPT ![c] = r.f]
    /\ thData' = r.data
    /\ thLast' = ThCall(h, "WriteAt", off, p, [err |-> r.err, bytes |-> <<>>])
    /\ thPrev' = ThSnapshot
    /\ ThFrame

\* a sequential Read on the backing file of a serverFile
ThRead ==
  \E h \in ServerFiles :
    LET c == CursorOf(h)
        r == FileRead(thH[c], thData, PacketLen) IN
    /\ thH' = [thH EXCEPT ![c] = r.f]
    /\ thLast' = ThCall(h, "Read", thH[c].pos, <<>>, r)
    /\ thPrev' = ThSnapshot
    /\ thData' = thData
    /\ ThFrame

\* a sequential Write on the backing file of a serverFile
ThWrite ==
  \E h \in ServerFiles, p \in [1..PacketLen -> {1}] :
    LET c == CursorOf(h)
        r == FileWrite(thH[c], thData, p) IN
    /\ Len(r.data) <= MaxLen + PacketLen
    /\ thH' = [thH EXCEPT ![c] = r.f]
    /\ thData' = r.data
    /\ thLast' = ThCall(h, "Write", thH[c].pos, p, [err |-> r.err, bytes |-> <<>>])
    /\ thPrev' = ThSnapshot
    /\ ThFrame

ThInit ==
  ThStartState /\ NewIdle /\ ClientIdle /\ DataIdle /\ SrvIdle /\ LockIdle
  /\ FileIdle /\ SetIdle /\ ListIdle /\ RdIdle /\ RaIdle /\ FsIdle /\ FhIdle
  /\ LnIdle /\ AuIdle /\ CnIdle /\ TxIdle

ThNext ==
  \/ ThReadAt
  \/ ThWriteAt
  \/ ThRead
  \/ ThWrite

SpecTwoHandles == ThInit /\ [][ThNext]_vars

(***************************************************************************)
(* Claims about positional calls.                                          *)
(***************************************************************************)
ThPositional == thLast.kind \in {"ReadAt", "WriteAt"}
ThSequential == thLast.kind \in {"Read", "Write"}

\* C26: a positional read or write on one handle does not change the
\* sequential position of a separately opened handle on the same path: a
\* sequential read or write on that other handle continues from where it was.
C26_OtherCursorKept ==
  /\ ThPositional =>
       \A g \in ServerFiles \ {thLast.h} : thH[g].pos = thPrev.pos[g]
  /\ ThSequential =>
       /\ thLast.off = thPrev.pos[thLast.h]
       /\ (thLast.kind = "Read" /\ thLast.err = Nil) =>
            thLast.bytes = SubSeq(thData, thLast.off + 1,
                                  Min(thLast.off + PacketLen, Len(thData)))

\* C26 witness: a positional write through handle 1 at an offset other than
\* the position of handle 2, which a sequential read had moved before
C26_Witness ==
  /\ thLast.kind = "WriteAt" /\ thLast.h = 1 /\ thLast.err = Nil
  /\ thH[2].pos > 0
  /\ thLast.off # thH[2].pos

\* the last call was a WriteAt through a serverFile opened read-write
ThWriteAtReadWrite ==
  /\ thLast.kind = "WriteAt"
  /\ "O_RDWR" \in thH[thLast.h].flags

\* C27: WriteAt(data, off) on a file opened read-write replaces exactly the
\* bytes [off, off+len(data)) with data, extends the file when off+len(data)
\* exceeds its size, and leaves every other byte unchanged.
C27_WriteAtReplaces ==
  ThWriteAtReadWrite =>
    /\ thLast.err = Nil
    /\ Len(thData) = Max(Len(thPrev.data), thLast.off + Len(thLast.p))
    /\ \A i \in 1..Len(thData) :
         IF i > thLast.off /\ i <= thLast.off + Len(thLast.p)
           THEN thData[i] = thLast.p[i - thLast.off]
           ELSE i <= Len(thPrev.data) => thData[i] = thPrev.data[i]

\* C27 witness: a read-write WriteAt inside a file that is not empty, which
\* ends past the old end of the file
C27_Witness ==
  /\ ThWriteAtReadWrite
  /\ thPrev.data # <<>>
  /\ thLast.off < Len(thPrev.data) + 1
  /\ Len(thData) > Len(thPrev.data)

(***************************************************************************)
(* Symlink (Filecmd) and Readlink (Filelist) over the backing filesystem.  *)
(* A path is whether it starts at the root, and its names.                 *)
(***************************************************************************)
PathOf(abs, names) == [abs |-> abs, names |-> names]

\* the link paths and the targets of the requests: t, d/t, /d/t and /
LinkPaths == {PathOf(TRUE, <<"l">>), PathOf(TRUE, <<"m">>)}
LinkTargets == {PathOf(FALSE, <<"t">>), PathOf(FALSE, <<"d", "t">>),
                PathOf(TRUE, <<"d", "t">>), PathOf(TRUE, <<>>)}

NoTarget == PathOf(FALSE, <<>>)

\* path.Base: the last name of a path, "/" for the root and "." for the empty path
PathBase(q) ==
  IF q.names = <<>>
    THEN IF q.abs THEN q ELSE PathOf(FALSE, <<".">>)
    ELSE PathOf(FALSE, <<q.names[Len(q.names)]>>)

\* linkInfo.Name()
LinkInfoName(target) == PathBase(target)

\* a request of the session, and the handler's answer: the error and the one
\* info of the listerat
LnRequest(method, filepath, target) ==
  [method |-> method, Filepath |-> filepath, Target |-> target]
LnAnswer(err, name, mode) == [err |-> err, name |-> name, mode |-> mode]

LnStartState ==
  /\ lnSupported \in BOOLEAN
  /\ lnLinks = [l \in LinkPaths |-> NoTarget]
  /\ lnReq = LnRequest(Nil, NoTarget, NoTarget)
  /\ lnReply = LnAnswer(Nil, NoTarget, Nil)

\* Filecmd, case "Symlink": sfs.Symlink(r.Target, r.Filepath)
LnSymlink ==
  \E l \in LinkPaths, t \in LinkTargets :
    /\ lnReq' = LnRequest("Symlink", l, t)
    /\ IF ~lnSupported
         THEN /\ lnReply' = LnAnswer("unsupported", NoTarget, Nil)
              /\ lnLinks' = lnLinks
         ELSE IF lnLinks[l] # NoTarget
           THEN /\ lnReply' = LnAnswer("exists", NoTarget, Nil)
                /\ lnLinks' = lnLinks
           ELSE /\ lnReply' = LnAnswer(Nil, NoTarget, Nil)
                /\ lnLinks' = [lnLinks EXCEPT ![l] = t]
    /\ lnSupported' = lnSupported
    /\ LnFrame

\* Filecmd, case "Remove": h.fs.Remove(r.Filepath)
LnRemove ==
  \E l \in LinkPaths :
    /\ lnReq' = LnRequest("Remove", l, NoTarget)
    /\ IF lnLinks[l] = NoTarget
         THEN /\ lnReply' = LnAnswer("notexist", NoTarget, Nil)
              /\ lnLinks' = lnLinks
         ELSE /\ lnReply' = LnAnswer(Nil, NoTarget, Nil)
              /\ lnLinks' = [lnLinks EXCEPT ![l] = NoTarget]
    /\ lnSupported' = lnSupported
    /\ LnFrame

\* handleReadlink
LnReadlink ==
  \E l \in LinkPaths :
    /\ lnReq' = LnRequest("Readlink", l, NoTarget)
    /\ lnReply' =
         IF ~lnSupported THEN LnAnswer("unsupported", NoTarget, Nil)
         ELSE IF lnLinks[l] = NoTarget THEN LnAnswer("notexist", NoTarget, Nil)
         ELSE LnAnswer(Nil, LinkInfoName(lnLinks[l]), "symlink|0777")
    /\ UNCHANGED <<lnSupported, lnLinks>>
    /\ LnFrame

LnInit ==
  LnStartState /\ NewIdle /\ ClientIdle /\ DataIdle /\ SrvIdle /\ LockIdle
  /\ FileIdle /\ SetIdle /\ ListIdle /\ RdIdle /\ RaIdle /\ FsIdle /\ FhIdle
  /\ ThIdle /\ AuIdle /\ CnIdle /\ TxIdle

LnNext ==
  \/ LnSymlink
  \/ LnRemove
  \/ LnReadlink

SpecLink == LnInit /\ [][LnNext]_vars

(***************************************************************************)
(* Claims about links.                                                     *)
(***************************************************************************)
\* C28: when the backing filesystem supports symlinks, symlink(T, L) followed
\* by readlink(L) through the server returns exactly T for every target T: the
\* name of the single info returned for a Readlink request equals the
\* recorded link target.
C28_ReadlinkReturnsTarget ==
  (lnSupported /\ lnReq.method = "Readlink" /\ lnLinks[lnReq.Filepath] # NoTarget) =>
     /\ lnReply.err = Nil
     /\ lnReply.name = lnLinks[lnReq.Filepath]

(***************************************************************************)
(* The password callbacks.  A users map is the set of its (user, password) *)
(* pairs, one pair for a user at most.                                     *)
(***************************************************************************)
UserNames == {"alice", "bob", "charlie"}
Passwords == {"", "password1", "password2"}

UserMaps ==
  {um \in SUBSET ({"alice", "bob"} \X Passwords) :
     \A a \in um, b \in um : a[1] = b[1] => a = b}

\* users[name] of a Go map: the value and whether the key is there; the zero
\* value "" for a key that is not
MapLookup(um, name) ==
  IF \E a \in um : a[1] = name
    THEN [value |-> (CHOOSE a \in um : a[1] = name)[2], ok |-> TRUE]
    ELSE [value |-> "", ok |-> FALSE]

\* SimplePasswordAuth's test
SimpleAccepts(username, password, user, pass) ==
  user = username /\ pass = password

\* MultiUserPasswordAuth's test
MultiUserAcceptsMutant(um, user, pass) == MapLookup(um, user).value = pass
MultiUserAccepts(um, user, pass) ==
  MapLookup(um, user).ok /\ MapLookup(um, user).value = pass

\* what a callback returns: nil, or ErrAuthFailed
AuthResult(accepted) == IF accepted THEN Nil ELSE "ErrAuthFailed"

AuStartState ==
  /\ auCfg \in {[kind |-> "simple", username |-> u, password |-> p, users |-> {}] :
                   u \in {"alice", "bob"}, p \in Passwords}
           \cup {[kind |-> "multi", username |-> Nil, password |-> Nil, users |-> um] :
                   um \in UserMaps}
  /\ auTry = [user |-> Nil, pass |-> Nil]
  /\ auOut = [called |-> FALSE, err |-> Nil]

\* the callback of SimplePasswordAuth(username, password)
AuSimple ==
  \E user \in UserNames, pass \in Passwords :
    /\ auCfg.kind = "simple"
    /\ auTry' = [user |-> user, pass |-> pass]
    /\ auOut' = [called |-> TRUE,
                 err |-> AuthResult(SimpleAccepts(auCfg.username, auCfg.password,
                                                  user, pass))]
    /\ auCfg' = auCfg
    /\ AuFrame

\* the callback of MultiUserPasswordAuth(users)
AuMulti ==
  \E user \in UserNames, pass \in Passwords :
    /\ auCfg.kind = "multi"
    /\ auTry' = [user |-> user, pass |-> pass]
    /\ auOut' = [called |-> TRUE,
                 err |-> AuthResult(MultiUserAccepts(auCfg.users, user, pass))]
    /\ auCfg' = auCfg
    /\ AuFrame

AuInit ==
  AuStartState /\ NewIdle /\ ClientIdle /\ DataIdle /\ SrvIdle /\ LockIdle
  /\ FileIdle /\ SetIdle /\ ListIdle /\ RdIdle /\ RaIdle /\ FsIdle /\ FhIdle
  /\ ThIdle /\ LnIdle /\ CnIdle /\ TxIdle

AuNext ==
  \/ AuSimple
  \/ AuMulti

SpecAuth == AuInit /\ [][AuNext]_vars

(***************************************************************************)
(* Claims about the password callbacks.                                    *)
(***************************************************************************)
\* C30: SimplePasswordAuth(u, p) accepts a login exactly when the user equals
\* u and the password equals p; MultiUserPasswordAuth(m) accepts (user, pass)
\* exactly when user is a key of m and m[user] equals pass; in every other
\* case, an unknown user with any password included, both return the same
\* authentication-failed error.
C30_AuthExact ==
  auOut.called =>
    /\ auOut.err \in {Nil, "ErrAuthFailed"}
    /\ auCfg.kind = "simple" =>
         ((auOut.err = Nil) <=>
            (auTry.user = auCfg.username /\ auTry.pass = auCfg.password))
    /\ auCfg.kind = "multi" =>
         ((auOut.err = Nil) <=> (<<auTry.user, auTry.pass>> \in auCfg.users))

\* C30 witness: a login of a user that the map does not hold, with the empty
\* password, refused by the callback of MultiUserPasswordAuth
C30_Witness ==
  /\ auOut.called /\ auCfg.kind = "multi"
  /\ auCfg.users # {}
  /\ auTry = [user |-> "charlie", pass |-> ""]
  /\ auOut.err = "ErrAuthFailed"

\* Serve returned in this step
ServeReturns == servePc = "accepting" /\ servePc' = "returned"

C31_ServeState ==
  /\ servePc = "accepting" => serveResult = NotReturned
  /\ servePc = "returned" =>
       /\ serveResult.accept # Nil
       /\ serveResult.ret = serveResult.accept
       /\ \A c \in Conns, k \in Chans :
            ~crashed =>
              /\ conn[c] = "HANDSHAKING" => ENABLED SrvHandshakeOK(c)
              /\ chanSt[<<c, k>>] = "SFTP_ACTIVE" => ENABLED SrvServeRequest(c, k)

C31_ServeStep ==
  /\ ServeReturns => UNCHANGED <<conn, chanSt, served>>
  /\ \A c \in Conns :
       (conn[c] = "NEW" /\ conn'[c] # "NEW" /\ ~crashed') =>
          /\ servePc = "accepting"
          /\ conn'[c] = "HANDSHAKING"
          /\ \A d \in Conns \ {c} : conn'[d] = conn[d]

\* C31: Serve returns only when the listener's accept returns an error, and
\* returns that error; every connection accepted before that is dispatched to
\* its own task, and the sessions in flight are not terminated by Serve
\* returning.
C31_ServeReturn == []C31_ServeState /\ [][C31_ServeStep]_vars

\* C31 witness: Serve has returned the error of Accept while a session whose
\* connection it had accepted is serving SFTP requests
C31_Witness ==
  /\ servePc = "returned" /\ serveResult.ret = "emfile"
  /\ \E s \in Sessions : SessionState(s) = "SFTP_ACTIVE" /\ served[s]


(***************************************************************************)
(* One connection in detail: handleConnection, the handleChannel task of   *)
(* each channel and serveSFTP.  The SSH library's read loop hands every    *)
(* channel request to the channel's request queue, which holds ChanBuffer  *)
(* requests; when the queue is full the read loop waits, and reads nothing *)
(* more of the connection, until the task takes a request out.             *)
(***************************************************************************)
\* the requests a client sends on a channel
CnRequests ==
  {[type |-> "subsystem", payload |-> <<"0", "0", "0", "4", "s", "f", "t", "p">>, want |-> TRUE],
   [type |-> "subsystem", payload |-> <<"0", "0", "0", "4", "s", "f", "t", "p">>, want |-> FALSE],
   [type |-> "subsystem", payload |-> <<"0", "0", "0", "3", "s", "c", "p">>, want |-> TRUE],
   [type |-> "subsystem", payload |-> <<"0", "0">>, want |-> TRUE],
   [type |-> "shell", payload |-> <<"0", "0">>, want |-> FALSE]}

\* req.Type == "subsystem" && string(req.Payload[4:]) == "sftp": the slice is
\* evaluated for every subsystem request, and panics on a short payload
RequestOutcome(r) ==
  IF r.type = "subsystem" /\ PayloadTooShort(r.payload) THEN "panic"
  ELSE IF r.type = "subsystem" /\ IsSftpPayload(r.payload) THEN "sftp"
  ELSE "loop"

\* if req.WantReply { req.Reply(true, nil) } / { req.Reply(false, nil) }
RequestReply(r) ==
  IF RequestOutcome(r) = "panic" \/ ~r.want THEN "none"
  ELSE IF RequestOutcome(r) = "sftp" THEN "ok" ELSE "fail"

\* the read loop waits with no request; no task has received a request
NilRequest == [type |-> Nil, payload |-> <<>>, want |-> FALSE]
NoRequest == [chan |-> Nil, req |-> NilRequest]
NoneHandled == [chan |-> Nil, req |-> NilRequest, reply |-> "none"]

\* the channels a task is working on
CnLive == {k \in Chans : cnCh[k] \in {"loop", "sftp"}}

CnStartState ==
  /\ cnPc = "handshake"
  /\ cnSock = "open"
  /\ cnSsh = "none"
  /\ cnClient = "connected"
  /\ cnCh = [k \in Chans |-> "none"]
  /\ cnQueue = [k \in Chans |-> <<>>]
  /\ cnEnded = {}
  /\ cnMux = NoRequest
  /\ cnLast = NoneHandled
  /\ cnPanic = FALSE

\* ssh.NewServerConn succeeded
CnHandshakeOK ==
  /\ cnPc = "handshake" /\ cnClient = "connected"
  /\ cnPc' = "serving"
  /\ cnSsh' = "open"
  /\ UNCHANGED <<cnSock, cnClient, cnCh, cnQueue, cnEnded, cnMux, cnLast, cnPanic>>
  /\ CnFrame

\* ssh.NewServerConn failed: conn.Close(); return
CnHandshakeFail ==
  /\ cnPc = "handshake"
  /\ cnPc' = "returned"
  /\ cnSock' = "closed"
  /\ UNCHANGED <<cnSsh, cnClient, cnCh, cnQueue, cnEnded, cnMux, cnLast, cnPanic>>
  /\ CnFrame

\* for newChannel := range chans: a channel that is not a session is
\* rejected, one whose Accept fails is skipped, the others get a task
CnNewChannel(k) ==
  /\ cnPc = "serving" /\ cnClient = "connected" /\ cnMux = NoRequest
  /\ cnCh[k] = "none"
  /\ \E t \in ChannelTypes, accepted \in BOOLEAN :
       cnCh' = [cnCh EXCEPT ![k] =
                  IF t = "session" /\ accepted THEN "loop" ELSE "rejected"]
  /\ UNCHANGED <<cnPc, cnSock, cnSsh, cnClient, cnQueue, cnEnded, cnMux, cnLast, cnPanic>>
  /\ CnFrame

\* the client sends a request on a channel: the read loop puts it in the
\* channel's queue, or waits with it when the queue is full
CnClientRequest(k) ==
  /\ cnPc = "serving" /\ cnClient = "connected" /\ cnMux = NoRequest
  /\ k \in CnLive \ cnEnded
  /\ \E r \in CnRequests :
       IF Len(cnQueue[k]) < ChanBuffer
         THEN /\ cnQueue' = [cnQueue EXCEPT ![k] = Append(@, r)]
              /\ cnMux' = cnMux
         ELSE /\ cnMux' = [chan |-> k, req |-> r]
              /\ cnQueue' = cnQueue
  /\ UNCHANGED <<cnPc, cnSock, cnSsh, cnClient, cnCh, cnEnded, cnLast, cnPanic>>
  /\ CnFrame

\* the queue of channel k after its task took the first request: a request
\* the read loop was waiting with moves in
QueueAfterReceive(k) ==
  IF cnMux.chan = k
    THEN Append(Tail(cnQueue[k]), cnMux.req)
    ELSE Tail(cnQueue[k])

\* for req := range requests: one iteration of handleChannel's loop
CnHandle(k) ==
  /\ cnCh[k] = "loop" /\ cnQueue[k] # <<>>
  /\ LET r == Head(cnQueue[k])
         out == RequestOutcome(r)
     IN /\ cnLast' = [chan |-> k, req |-> r, reply |-> RequestReply(r)]
        /\ IF out = "panic"
             THEN \* an unrecovered panic ends the process
                  /\ cnPanic' = TRUE
                  /\ cnPc' = "dead"
                  /\ cnSock' = "closed"
                  /\ cnSsh' = IF cnSsh = "none" THEN "none" ELSE "closed"
                  /\ cnCh' = [j \in Chans |-> IF j \in CnLive THEN "dead" ELSE cnCh[j]]
                  /\ cnQueue' = [j \in Chans |-> <<>>]
                  /\ cnMux' = NoRequest
             ELSE /\ cnCh' = [cnCh EXCEPT ![k] = out]
                  /\ cnQueue' = [cnQueue EXCEPT ![k] = QueueAfterReceive(k)]
                  /\ cnMux' = IF cnMux.chan = k THEN NoRequest ELSE cnMux
                  /\ UNCHANGED <<cnPc, cnSock, cnSsh, cnPanic>>
  /\ UNCHANGED <<cnClient, cnEnded>>
  /\ CnFrame

\* the request stream ended: the loop ends and the deferred channel.Close()
\* runs
CnLoopEnd(k) ==
  /\ cnCh[k] = "loop" /\ cnQueue[k] = <<>> /\ k \in cnEnded
  /\ cnCh' = [cnCh EXCEPT ![k] = "closed"]
  /\ UNCHANGED <<cnPc, cnSock, cnSsh, cnClient, cnQueue, cnEnded, cnMux, cnLast, cnPanic>>
  /\ CnFrame

\* serveSFTP returns (server.Serve() saw the end of the channel's data, or a
\* malformed packet); handleChannel returns and channel.Close() runs
CnSftpEnd(k) ==
  /\ cnCh[k] = "sftp"
  /\ k \in cnEnded \/ (cnClient = "connected" /\ cnMux = NoRequest)
  /\ cnCh' = [cnCh EXCEPT ![k] = "closed"]
  /\ UNCHANGED <<cnPc, cnSock, cnSsh, cnClient, cnQueue, cnEnded, cnMux, cnLast, cnPanic>>
  /\ CnFrame

\* the client closes a channel
CnClientCloseChannel(k) ==
  /\ cnPc = "serving" /\ cnClient = "connected" /\ cnMux = NoRequest
  /\ k \in CnLive \ cnEnded
  /\ cnEnded' = cnEnded \cup {k}
  /\ UNCHANGED <<cnPc, cnSock, cnSsh, cnClient, cnCh, cnQueue, cnMux, cnLast, cnPanic>>
  /\ CnFrame

\* the client disconnects
CnClientGone ==
  /\ cnClient = "connected" /\ cnPc # "dead"
  /\ cnClient' = "gone"
  /\ UNCHANGED <<cnPc, cnSock, cnSsh, cnCh, cnQueue, cnEnded, cnMux, cnLast, cnPanic>>
  /\ CnFrame

\* the read loop reads the end of the connection: every stream ends, the
\* range over chans ends and the deferred sshConn.Close() runs
CnStreamEnd ==
  /\ cnPc = "serving" /\ cnClient = "gone" /\ cnMux = NoRequest
  /\ cnEnded' = Chans
  /\ cnPc' = "returned"
  /\ cnSsh' = "closed"
  /\ cnSock' = "closed"
  /\ UNCHANGED <<cnClient, cnCh, cnQueue, cnMux, cnLast, cnPanic>>
  /\ CnFrame

CnInit ==
  CnStartState /\ NewIdle /\ ClientIdle /\ DataIdle /\ SrvIdle /\ LockIdle
  /\ FileIdle /\ SetIdle /\ ListIdle /\ RdIdle /\ RaIdle /\ FsIdle /\ FhIdle
  /\ ThIdle /\ LnIdle /\ AuIdle /\ TxIdle

CnNext ==
  \/ CnHandshakeOK
  \/ CnHandshakeFail
  \/ \E k \in Chans : CnNewChannel(k)
  \/ \E k \in Chans : CnClientRequest(k)
  \/ \E k \in Chans : CnHandle(k)
  \/ \E k \in Chans : CnLoopEnd(k)
  \/ \E k \in Chans : CnSftpEnd(k)
  \/ \E k \in Chans : CnClientCloseChannel(k)
  \/ CnClientGone
  \/ CnStreamEnd

SpecConn == CnInit /\ [][CnNext]_vars

\* every task and the read loop keep running
SpecConnFair ==
  /\ CnInit /\ [][CnNext]_vars
  /\ WF_vars(CnHandshakeFail /\ cnClient = "gone")
  /\ \A k \in Chans : WF_vars(CnHandle(k))
  /\ \A k \in Chans : WF_vars(CnLoopEnd(k))
  /\ \A k \in Chans : WF_vars(k \in cnEnded /\ CnSftpEnd(k))
  /\ WF_vars(CnStreamEnd)


(***************************************************************************)
(* Claims about one connection and its channel tasks.                      *)
(***************************************************************************)
Sftp == <<"s", "f", "t", "p">>

\* the last request a task received was a subsystem request whose payload is
\* shorter than the 4-byte length prefix
ShortSubsystemHandled ==
  /\ cnLast.chan # Nil
  /\ cnLast.req.type = "subsystem"
  /\ Len(cnLast.req.payload) < 4

\* C32: a subsystem request whose payload, after its 4-byte length prefix, is
\* "sftp" is answered with success when a reply was requested and starts the
\* SFTP server on the channel, after which no further request of that channel
\* is processed; every other request is answered with failure when a reply
\* was requested (and not answered otherwise), and the channel keeps waiting
\* for requests.
C32_RequestState ==
  cnLast.chan # Nil =>
    IF /\ cnLast.req.type = "subsystem"
       /\ SubSeq(cnLast.req.payload, 5, Len(cnLast.req.payload)) = Sftp
      THEN /\ cnLast.reply = (IF cnLast.req.want THEN "ok" ELSE "none")
           /\ cnCh[cnLast.chan] \in {"sftp", "closed"}
      ELSE /\ cnLast.reply = (IF cnLast.req.want THEN "fail" ELSE "none")
           /\ cnCh[cnLast.chan] \in {"loop", "closed"}

C32_RequestStep ==
  \A k \in Chans :
    cnCh[k] \in {"sftp", "closed"} =>
      /\ cnCh'[k] # "loop"
      /\ cnLast' # cnLast => cnLast'.chan # k
      /\ Len(cnQueue'[k]) >= Len(cnQueue[k]) \/ cnPanic'

C32_SubsystemRequest == []C32_RequestState /\ [][C32_RequestStep]_vars

\* C36: handleChannel handles a subsystem request with any payload, one
\* shorter than 4 bytes included, without aborting: the request is answered
\* with failure when a reply was requested and the channel keeps processing
\* requests.
C36_ShortPayloadHandled ==
  ShortSubsystemHandled =>
    /\ ~cnPanic
    /\ cnLast.req.want => cnLast.reply = "fail"
    /\ cnCh[cnLast.chan] \in {"loop", "closed"}

\* everything the connection held is released
CnReleased ==
  /\ cnPc \in {"returned", "dead"}
  /\ cnSock = "closed"
  /\ cnSsh \in {"none", "closed"}
  /\ \A k \in Chans : cnCh[k] \in {"none", "rejected", "closed", "dead"}

\* C33: every resource is released on every exit path: the raw socket when
\* the handshake fails, the SSH connection when the channel stream ends, each
\* channel by the task that served it; once the client has disconnected,
\* every session of the connection is eventually closed.
C33_ExitState ==
  /\ cnPc = "returned" => cnSock = "closed" /\ cnSsh \in {"none", "closed"}
  /\ \A k \in Chans : cnCh[k] = "closed" => k \notin CnLive

C33_ReleasedOnExit == []C33_ExitState /\ (cnClient = "gone" ~> CnReleased)


(***************************************************************************)
(* Handler calls and the data transfers that follow them.  The request     *)
(* workers call Fileread, Filewrite and Filecmd for one path; a Fileread   *)
(* or Filewrite that succeeds returns a serverFile, on which ReadAt or     *)
(* WriteAt calls run later.                                                *)
(***************************************************************************)
TxWorkers == {"w1", "w2"}
TxFiles == {"f1", "f2"}
TxHandlers == {"Fileread", "Filewrite", "Filecmd"}

\* how serverFile.ReadAt and serverFile.WriteAt take h.mu: not at all, they
\* lock the file's own f.mu
TransferLockMutant == "shared"
TransferLock == "none"

\* a worker holds h.mu exclusively
ExclusiveHeld ==
  \E u \in txHeld \cap TxWorkers : LockMode(txReq[u]) = "exclusive"

\* a ReadAt or WriteAt is in progress on the file
Transferring(f) == txXfer[f] \in {"ReadAt", "WriteAt"}

TxStartState ==
  /\ txPc = [w \in TxWorkers |-> "idle"]
  /\ txReq = [w \in TxWorkers |-> "none"]
  /\ txHeld = {}
  /\ txFile = [f \in TxFiles |-> "closed"]
  /\ txXfer = [f \in TxFiles |-> "idle"]

\* a handler method is called and gets h.mu
TxCall(w) ==
  /\ txPc[w] = "idle"
  /\ \E handler \in TxHandlers :
       /\ IF LockMode(handler) = "shared" THEN ~ExclusiveHeld ELSE txHeld = {}
       /\ txReq' = [txReq EXCEPT ![w] = handler]
  /\ txPc' = [txPc EXCEPT ![w] = "locked"]
  /\ txHeld' = txHeld \cup {w}
  /\ UNCHANGED <<txFile, txXfer>>
  /\ TxFrame

\* the handler method returns: the deferred unlock runs; a Fileread or
\* Filewrite that succeeded hands a serverFile to the request server
TxReturn(w) ==
  /\ txPc[w] = "locked"
  /\ txPc' = [txPc EXCEPT ![w] = "idle"]
  /\ txReq' = [txReq EXCEPT ![w] = "none"]
  /\ txHeld' = txHeld \ {w}
  /\ \/ txFile' = txFile
     \/ /\ txReq[w] \in {"Fileread", "Filewrite"}
        /\ \E f \in TxFiles :
             /\ txFile[f] = "closed"
             /\ txFile' = [txFile EXCEPT ![f] =
                             IF txReq[w] = "Fileread" THEN "reader" ELSE "writer"]
  /\ txXfer' = [f \in TxFiles |->
                  IF txFile'[f] # txFile[f] THEN "idle" ELSE txXfer[f]]
  /\ TxFrame

\* serverFile.ReadAt or serverFile.WriteAt starts: f.mu.Lock(), Seek
TxBegin(f) ==
  /\ txFile[f] # "closed" /\ ~Transferring(f)
  /\ txXfer' = [txXfer EXCEPT ![f] =
                  IF txFile[f] = "reader" THEN "ReadAt" ELSE "WriteAt"]
  /\ IF TransferLock = "none"
       THEN txHeld' = txHeld
       ELSE ~ExclusiveHeld /\ txHeld' = txHeld \cup {f}
  /\ UNCHANGED <<txPc, txReq, txFile>>
  /\ TxFrame

\* the Read or Write returns, and the deferred f.mu.Unlock() runs
TxEnd(f) ==
  /\ Transferring(f)
  /\ txXfer' = [txXfer EXCEPT ![f] = "done"]
  /\ txHeld' = txHeld \ {f}
  /\ UNCHANGED <<txPc, txReq, txFile>>
  /\ TxFrame

\* serverFile.Close
TxClose(f) ==
  /\ txFile[f] # "closed" /\ ~Transferring(f)
  /\ txFile' = [txFile EXCEPT ![f] = "closed"]
  /\ UNCHANGED <<txPc, txReq, txHeld, txXfer>>
  /\ TxFrame

TxInit ==
  TxStartState /\ NewIdle /\ ClientIdle /\ DataIdle /\ SrvIdle /\ LockIdle
  /\ FileIdle /\ SetIdle /\ ListIdle /\ RdIdle /\ RaIdle /\ FsIdle /\ FhIdle
  /\ ThIdle /\ LnIdle /\ AuIdle /\ CnIdle

TxNext ==
  \/ \E w \in TxWorkers : TxCall(w)
  \/ \E w \in TxWorkers : TxReturn(w)
  \/ \E f \in TxFiles : TxBegin(f)
  \/ \E f \in TxFiles : TxEnd(f)
  \/ \E f \in TxFiles : TxClose(f)

SpecTransfer == TxInit /\ [][TxNext]_vars

(***************************************************************************)
(* Claims about the handler lock and the data transfers.                   *)
(***************************************************************************)
C37_LockState ==
  /\ txHeld = {w \in TxWorkers : txPc[w] = "locked"}
  /\ \A f \in TxFiles : Transferring(f) => f \notin txHeld

C37_TransferStep ==
  (\E f \in TxFiles : Transferring(f) # Transferring(f)') => txHeld' = txHeld

\* C37: the handler lock is held only for the duration of a handler call
\* (open, command, list) and not for the data transfer that follows: ReadAt
\* and WriteAt on a file returned by Fileread or Filewrite never acquire the
\* handler lock, so a WriteAt can execute while a Filecmd on the same path
\* holds the exclusive lock, and while a ReadAt on another handle of the same
\* path is executing.
C37_TransfersOutsideLock == []C37_LockState /\ [][C37_TransferStep]_vars

\* C37 witness: a WriteAt executes while a Filecmd holds the lock exclusively
\* and a ReadAt executes on another handle
C37_Witness ==
  \E w \in TxWorkers, f, g \in TxFiles :
    /\ txPc[w] = "locked" /\ txReq[w] = "Filecmd" /\ w \in txHeld
    /\ f # g
    /\ txXfer[f] = "WriteAt"
    /\ txXfer[g] = "ReadAt"

=============================================================================
